---- MODULE Spec2Model ----
(***************************************************************************)
(* Static-mesh asset container and library index of crpg (src/asset.cc,    *)
(* src/include/asset.h).  Files are byte sequences; every structure is     *)
(* written and read as its memory image, as the code does.  Further down:  *)
(* the descriptor layout cache, the descriptor allocator and the frame     *)
(* loop of the engine (src/gfx.cc) and the identifier registry             *)
(* (src/include/str-id.h).                                                 *)
(***************************************************************************)
EXTENDS Integers, Sequences, FiniteSets, TLC

VARIABLES fs, input, handle, lib, vbuf, ibuf, last, status, opens, hist,
          layoutCache, allocator, engine, iddb

\* the objects of gfx.cc and str-id.h
otherVars == <<layoutCache, allocator, engine, iddb>>

\* the objects of asset.cc, the file system, and the bookkeeping of calls
assetVars == <<fs, input, handle, lib, vbuf, ibuf, status, opens, hist>>

vars == <<fs, input, handle, lib, vbuf, ibuf, last, status, opens, hist,
          layoutCache, allocator, engine, iddb>>

(* ------------------------------ bounds -------------------------------- *)

MaxMeshes == 2

MaxVerts == 2

MaxIndices == 2

MaxRefs == 2

MaxFileRefs == 2

MaxCalls == 2

MaxBindings == 2

MaxLayouts == 2

MaxPools == 3

MaxSets == 2

MaxDraws == 4

MaxNames == 2

(* ------------------------- sizes of the structures --------------------- *)

MagicLen == 32

SizeofU32 == 4

SizeofU16 == 2

SizeofStaticMeshFileHeader == MagicLen + 3 * SizeofU32

SizeofStaticMeshData == 6 * SizeofU32 + 6 * SizeofU32 + 4 * SizeofU32

SizeofStaticVertexData == (3 + 2 + 3 + 3) * SizeofU32

SizeofLibraryFileHeader == MagicLen + 2 * SizeofU32

SizeofLibraryAssetRef == 3 * SizeofU32

NULL_ASSET_ID == 0

AssetType_StaticMesh == 0

AssetType_Texture == 1

\* "crpg:asset:static-mesh"
StaticMeshFileHeader_MAGIC_NUMBER ==
  <<99, 114, 112, 103, 58, 97, 115, 115, 101, 116, 58,
    115, 116, 97, 116, 105, 99, 45, 109, 101, 115, 104>>

\* "crpg:asset:library"
LibraryFileHeader_MAGIC_NUMBER ==
  <<99, 114, 112, 103, 58, 97, 115, 115, 101, 116, 58,
    108, 105, 98, 114, 97, 114, 121>>

(* --------------------------- memory images ----------------------------- *)

Min(a, b) == IF a < b THEN a ELSE b

Max(a, b) == IF a > b THEN a ELSE b

Fill(n, b) == [i \in 1..n |-> b]

\* little-endian image of a uint32_t
U32Bytes(n) ==
  <<n % 256, (n \div 256) % 256, (n \div 65536) % 256, (n \div 16777216) % 256>>

\* little-endian image of a uint16_t
U16Bytes(n) == <<n % 256, (n \div 256) % 256>>

\* the uint32_t stored at byte offset off (0-based) of image b
U32At(b, off) ==
  b[off + 1] + 256 * b[off + 2] + 65536 * b[off + 3] + 16777216 * b[off + 4]

RECURSIVE Flatten(_)
Flatten(ss) == IF ss = <<>> THEN <<>> ELSE Head(ss) \o Flatten(Tail(ss))

\* memory dest after its first Len(src) bytes were overwritten by src
Overlay(dest, src) ==
  [i \in 1..Len(dest) |-> IF i <= Len(src) THEN src[i] ELSE dest[i]]

\* values an indeterminate (never written) byte of a stack object may hold
GarbageBytes == {0, 204}

\* char magicNumber[32] after strcpy(magicNumber, MAGIC_NUMBER): the string,
\* its terminating NUL, and whatever the array held before in the rest
MagicField(magic, rest) ==
  magic \o <<0>> \o Fill(MagicLen - Len(magic) - 1, rest)

StaticMeshFileHeaderBytes(h) ==
  h.magicNumber \o U32Bytes(h.meshCount) \o U32Bytes(h.vertexCount)
                \o U32Bytes(h.indexCount)

StaticMeshFileHeaderAt(b) ==
  [magicNumber |-> SubSeq(b, 1, MagicLen),
   meshCount   |-> U32At(b, MagicLen),
   vertexCount |-> U32At(b, MagicLen + 4),
   indexCount  |-> U32At(b, MagicLen + 8)]

StaticMeshDataBytes(m) ==
  Flatten([i \in 1..6 |-> U32Bytes(m.bounds[i])])
    \o U32Bytes(m.id)
    \o U32Bytes(m.color) \o U32Bytes(m.normal) \o U32Bytes(m.roughness)
    \o U32Bytes(m.occlusion) \o U32Bytes(m.emission)
    \o U32Bytes(m.vertexOffset) \o U32Bytes(m.vertexCount)
    \o U32Bytes(m.indexOffset) \o U32Bytes(m.indexCount)

StaticMeshDataAt(b, off) ==
  [bounds       |-> [i \in 1..6 |-> U32At(b, off + 4 * (i - 1))],
   id           |-> U32At(b, off + 24),
   color        |-> U32At(b, off + 28),
   normal       |-> U32At(b, off + 32),
   roughness    |-> U32At(b, off + 36),
   occlusion    |-> U32At(b, off + 40),
   emission     |-> U32At(b, off + 44),
   vertexOffset |-> U32At(b, off + 48),
   vertexCount  |-> U32At(b, off + 52),
   indexOffset  |-> U32At(b, off + 56),
   indexCount   |-> U32At(b, off + 60)]

\* a vertex is 11 floats, kept as their 32-bit patterns
StaticVertexDataBytes(v) == Flatten([i \in 1..11 |-> U32Bytes(v[i])])

(* ------------------------------- files --------------------------------- *)

NoFile == [exists |-> FALSE, data |-> <<>>]

File(bytes) == [exists |-> TRUE, data |-> bytes]

\* "m"
MeshPath == <<109>>

\* "x/m": a path in a directory that does not exist
BadPath == <<120, 47, 109>>

\* what is stored at path p
FileOf(p) == IF p \in DOMAIN fs THEN fs[p] ELSE NoFile

\* std::ofstream out(path) succeeds
Writable(p) == p \in DOMAIN fs /\ p # BadPath

(* --------------------------- std::ifstream ----------------------------- *)

NoStream == [open |-> FALSE, fail |-> TRUE, eof |-> FALSE, pos |-> 0, path |-> <<>>]

\* std::ifstream stream(path, std::ios::binary)
StreamOpen(p) ==
  IF FileOf(p).exists
    THEN [open |-> TRUE, fail |-> FALSE, eof |-> FALSE, pos |-> 0, path |-> p]
    ELSE [open |-> FALSE, fail |-> TRUE, eof |-> FALSE, pos |-> 0, path |-> p]

\* stream.read(buf, n): the bytes stored into buf and the stream afterwards
StreamRead(s, n) ==
  IF s.fail \/ s.eof
    THEN [got |-> <<>>, s |-> [s EXCEPT !.fail = TRUE]]
    ELSE LET data  == FileOf(s.path).data
             avail == Max(0, Len(data) - s.pos)
             k     == Min(n, avail)
         IN  [got |-> SubSeq(data, s.pos + 1, s.pos + k),
              s   |-> [s EXCEPT !.pos = s.pos + k,
                                !.eof = k < n,
                                !.fail = k < n]]

\* stream.seekg(off, std::ios::beg)
StreamSeek(s, off) ==
  IF s.fail THEN [s EXCEPT !.eof = FALSE]
            ELSE [s EXCEPT !.eof = FALSE, !.pos = off]

(* ------------- the objects of gfx.cc and str-id.h, unused -------------- *)

\* VK_NULL_HANDLE
VK_NULL_HANDLE == 0

\* DescriptorLayoutCache: _layoutCache maps a DescriptorLayoutInfo (its list
\* of bindings) to the layout created for it
EmptyLayoutCache == <<>>

\* DescriptorAllocator after init: no pool yet.  created counts the pools
\* vkCreateDescriptorPool handed out (pool handles are 1, 2, ...), sets[p]
\* the descriptor sets allocated from pool p since its last reset, attempts
\* the pools the vkAllocateDescriptorSets calls of the last allocate went to
NewAllocator ==
  [_currentPool |-> VK_NULL_HANDLE,
   _usedPools   |-> <<>>,
   _freePools   |-> <<>>,
   created      |-> 0,
   sets         |-> <<>>,
   attempts     |-> <<>>]

\* size_t MAX_FRAMES_IN_FLIGHT { 2 }
MAX_FRAMES_IN_FLIGHT == 2

\* Engine after init: _currentFrame is 0 and _initPerFrames created every
\* renderFinishedFence signalled; inFlight lists the slots of the
\* submissions the GPU has not finished, pc is where draw() stands
NewEngine ==
  [_currentFrame |-> 0,
   fence         |-> [i \in 0..(MAX_FRAMES_IN_FLIGHT - 1) |-> TRUE],
   inFlight      |-> <<>>,
   pc            |-> "idle",
   _framesDrawn  |-> 0]

\* IDDB db;
EmptyIDDB == [_nameToID |-> <<>>, _idToName |-> <<>>]

OthersIdle ==
  /\ layoutCache = EmptyLayoutCache
  /\ allocator = NewAllocator
  /\ engine = NewEngine
  /\ iddb = EmptyIDDB

(* ---------------------- the caller's mesh arrays ------------------------ *)

MeshIDs == {7, 9}

\* an id no record and no ref carries
AbsentID == 5

QueryIDs == MeshIDs \cup {AbsentID}

\* the v-th vertex of the caller's array (0-based)
VertexValue(v) == [j \in 1..11 |-> 1000 * (v + 1) + j]

\* the k-th index of the caller's array (0-based)
IndexValue(k) == 300 + k

\* non-empty ranges <<offset, count>> inside a pool of total elements
Ranges(total) ==
  {r \in (0..total) \X (1..total) : r[1] + r[2] <= total}

MeshRecord(id, vr, ir) ==
  [bounds       |-> [i \in 1..6 |-> 16 * id + i],
   id           |-> id,
   color        |-> NULL_ASSET_ID,
   normal       |-> NULL_ASSET_ID,
   roughness    |-> NULL_ASSET_ID,
   occlusion    |-> NULL_ASSET_ID,
   emission     |-> NULL_ASSET_ID,
   vertexOffset |-> vr[1],
   vertexCount  |-> vr[2],
   indexOffset  |-> ir[1],
   indexCount   |-> ir[2]]

\* the index range that goes with the vertex range vr in the caller's
\* tables: it runs to the end of the index pool and differs from vr in
\* offset or in count
IndexRangeFor(vr) ==
  LET o == (vr[1] + vr[2] - 1) % MaxIndices IN <<o, MaxIndices - o>>

MeshRecords ==
  {MeshRecord(id, vr, IndexRangeFor(vr)) : id \in MeshIDs, vr \in Ranges(MaxVerts)}

MeshTables ==
  UNION {[1..n -> MeshRecords] : n \in 0..MaxMeshes}

\* the arrays handed to writeStaticMeshFile, with their counts
MeshInputs ==
  {[meshes  |-> t,
    verts   |-> [v \in 1..MaxVerts |-> VertexValue(v - 1)],
    indices |-> [k \in 1..MaxIndices |-> IndexValue(k - 1)]] : t \in MeshTables}

NoInput == [meshes |-> <<>>, verts |-> <<>>, indices |-> <<>>]

(* ------------------------ writeStaticMeshFile -------------------------- *)

\* the bytes writeStaticMeshFile puts into the file; rest is the content of
\* the bytes of header.magicNumber that strcpy did not write
StaticMeshFileBytes(in, rest) ==
  StaticMeshFileHeaderBytes(
      [magicNumber |-> MagicField(StaticMeshFileHeader_MAGIC_NUMBER, rest),
       meshCount   |-> Len(in.meshes),
       vertexCount |-> Len(in.verts),
       indexCount  |-> Len(in.indices)])
    \o Flatten([i \in 1..Len(in.meshes) |-> StaticMeshDataBytes(in.meshes[i])])
    \o Flatten([i \in 1..Len(in.verts) |-> StaticVertexDataBytes(in.verts[i])])
    \o Flatten([i \in 1..Len(in.indices) |-> U16Bytes(in.indices[i])])

Called(op, path, id, ret) == [op |-> op, path |-> path, id |-> id, ret |-> ret]

writeStaticMeshFile(path) ==
  /\ status = "running"
  /\ IF Writable(path)
       THEN \E rest \in GarbageBytes :
              fs' = [fs EXCEPT ![path] = File(StaticMeshFileBytes(input, rest))]
       ELSE fs' = fs
  /\ last' = Called("writeStaticMeshFile", path, 0, 0)
  /\ UNCHANGED <<input, handle, lib, vbuf, ibuf, status, opens, hist, otherVars>>

(* ------------------------- openStaticMeshFile -------------------------- *)

NoHandle ==
  [valid    |-> FALSE,
   _header  |-> StaticMeshFileHeaderAt(Fill(SizeofStaticMeshFileHeader, 0)),
   _meshes  |-> <<>>,
   _stream  |-> NoStream]

\* an open that reads one vertex beyond the record table
OpenedStaticMeshFile_ReadAhead(path) ==
  LET s0      == StreamOpen(path)
      hdr0    == MagicField(StaticMeshFileHeader_MAGIC_NUMBER, 0)
                   \o Fill(3 * SizeofU32, 0)
      r1      == StreamRead(s0, SizeofStaticMeshFileHeader)
      header  == StaticMeshFileHeaderAt(Overlay(hdr0, r1.got))
      nbytes  == header.meshCount * SizeofStaticMeshData
      r2      == StreamRead(r1.s, nbytes + SizeofStaticVertexData)
      image   == Overlay(Fill(nbytes, 0), r2.got)
  IN  [valid   |-> TRUE,
       _header |-> header,
       _meshes |-> [i \in 1..header.meshCount |->
                      StaticMeshDataAt(image, (i - 1) * SizeofStaticMeshData)],
       _stream |-> r2.s]

\* the handle openStaticMeshFile(path) returns
OpenedStaticMeshFile(path) ==
  LET s0      == StreamOpen(path)
      \* make_unique value-initialises the buffer: zeroed, then the header's
      \* constructor copies the magic string
      hdr0    == MagicField(StaticMeshFileHeader_MAGIC_NUMBER, 0)
                   \o Fill(3 * SizeofU32, 0)
      r1      == StreamRead(s0, SizeofStaticMeshFileHeader)
      header  == StaticMeshFileHeaderAt(Overlay(hdr0, r1.got))
      nbytes  == header.meshCount * SizeofStaticMeshData
      r2      == StreamRead(r1.s, nbytes)
      image   == Overlay(Fill(nbytes, 0), r2.got)
  IN  [valid   |-> TRUE,
       _header |-> header,
       _meshes |-> [i \in 1..header.meshCount |->
                      StaticMeshDataAt(image, (i - 1) * SizeofStaticMeshData)],
       _stream |-> r2.s]

openStaticMeshFile(path) ==
  /\ status = "running"
  /\ handle' = OpenedStaticMeshFile(path)
  /\ last' = Called("openStaticMeshFile", path, 0, 0)
  /\ UNCHANGED <<fs, input, lib, vbuf, ibuf, status, opens, hist, otherVars>>

\* ~StaticMeshFileHandleBuffer, run when the owner drops the handle
closeStaticMeshFile ==
  /\ status = "running"
  /\ handle.valid
  /\ handle' = NoHandle
  /\ last' = Called("close", <<>>, 0, 0)
  /\ UNCHANGED <<fs, input, lib, vbuf, ibuf, status, opens, hist, otherVars>>

(* ------------------ StaticMeshFileHandleBuffer methods ----------------- *)

MatchingRecords(h, id) ==
  {i \in 1..h._header.meshCount : h._meshes[i].id = id}

MinOf(S) == CHOOSE x \in S : \A y \in S : x <= y

MaxOf(S) == CHOOSE x \in S : \A y \in S : x >= y

\* a scan that ends on the last record it looked at instead of nullptr
GetMeshData_NoNull(h, id) ==
  IF MatchingRecords(h, id) = {} THEN h._header.meshCount
                                 ELSE MinOf(MatchingRecords(h, id))

\* getMeshData(id): 0 for nullptr, else the 1-based position of the record
\* the returned pointer addresses
GetMeshData(h, id) ==
  IF MatchingRecords(h, id) = {} THEN 0 ELSE MinOf(MatchingRecords(h, id))

\* the offset counted from the start of the record table, the header left out
_vertexOffsetToBytes_NoHeader(h, vertOffset) ==
  h._header.meshCount * SizeofStaticMeshData
    + vertOffset * SizeofStaticVertexData

_vertexOffsetToBytes(h, vertOffset) ==
  SizeofStaticMeshFileHeader
    + h._header.meshCount * SizeofStaticMeshData
    + vertOffset * SizeofStaticVertexData

\* the index section taken to start right after the record table
_indexOffsetToBytes_NoVertexSection(h, indexOffset) ==
  SizeofStaticMeshFileHeader
    + h._header.meshCount * SizeofStaticMeshData
    + indexOffset * SizeofU16

_indexOffsetToBytes(h, indexOffset) ==
  SizeofStaticMeshFileHeader
    + h._header.meshCount * SizeofStaticMeshData
    + h._header.vertexCount * SizeofStaticVertexData
    + indexOffset * SizeofU16

\* idx assigned on every iteration, not only on a match
ReadMeshIdx_Unconditional(h, id) == h._header.meshCount

\* the record readMesh settles on: 0 for idx == -1, else its 1-based position
ReadMeshIdx(h, id) ==
  IF MatchingRecords(h, id) = {} THEN 0 ELSE MaxOf(MatchingRecords(h, id))

\* readMesh without its first seekg: the vertex read starts where the
\* stream stands
ReadMeshStreams_NoVertexSeek(h, mesh) ==
  LET s1 == h._stream
      r1 == StreamRead(s1, mesh.vertexCount * SizeofStaticVertexData)
      s2 == StreamSeek(r1.s, _indexOffsetToBytes(h, mesh.indexOffset))
      r2 == StreamRead(s2, mesh.indexCount * SizeofU16)
  IN  [s1 |-> s1, r1 |-> r1, s2 |-> s2, r2 |-> r2]

\* the two seeks and the two reads of readMesh for the record mesh of h:
\* the stream after each seek, and what each read stored and left
ReadMeshStreams(h, mesh) ==
  LET s1 == StreamSeek(h._stream, _vertexOffsetToBytes(h, mesh.vertexOffset))
      r1 == StreamRead(s1, mesh.vertexCount * SizeofStaticVertexData)
      s2 == StreamSeek(r1.s, _indexOffsetToBytes(h, mesh.indexOffset))
      r2 == StreamRead(s2, mesh.indexCount * SizeofU16)
  IN  [s1 |-> s1, r1 |-> r1, s2 |-> s2, r2 |-> r2]

\* readMesh(id, verts, indices) on handle h with the buffers vb and ib
ReadMesh(h, id, vb, ib) ==
  LET idx == ReadMeshIdx(h, id) IN
  IF idx = 0
    THEN [ret |-> FALSE, h |-> h, verts |-> vb, indices |-> ib]
    ELSE LET t == ReadMeshStreams(h, h._meshes[idx])
         IN  [ret     |-> TRUE,
              h       |-> [h EXCEPT !._stream = t.r2.s],
              verts   |-> Overlay(vb, t.r1.got),
              indices |-> Overlay(ib, t.r2.got)]

\* byte the caller's freshly allocated output buffers are filled with
Poison == 170

\* the buffers a caller passes to readMesh: room for every vertex and every
\* index of the file, not yet written
FreshVerts == Fill(MaxVerts * SizeofStaticVertexData, Poison)

FreshIndices == Fill(MaxIndices * SizeofU16, Poison)

StaticMeshFileHandleBuffer_getMeshData(id) ==
  /\ status = "running"
  /\ handle.valid
  /\ last' = Called("getMeshData", <<>>, id, GetMeshData(handle, id))
  /\ UNCHANGED <<fs, input, handle, lib, vbuf, ibuf, status, opens, hist, otherVars>>

StaticMeshFileHandleBuffer_readMesh(id) ==
  /\ status = "running"
  /\ handle.valid
  /\ LET r == ReadMesh(handle, id, FreshVerts, FreshIndices) IN
       /\ handle' = r.h
       /\ vbuf' = r.verts
       /\ ibuf' = r.indices
       /\ last' = Called("readMesh", <<>>, id, IF r.ret THEN 1 ELSE 0)
  /\ UNCHANGED <<fs, input, lib, status, opens, hist, otherVars>>

(* --------------------------- library files ----------------------------- *)

LibraryAssetRefBytes(r) ==
  U32Bytes(r.assetID) \o U32Bytes(r.assetType) \o U32Bytes(r.pathOffset)

LibraryAssetRefAt(b, off) ==
  [assetID    |-> U32At(b, off),
   assetType  |-> U32At(b, off + 4),
   pathOffset |-> U32At(b, off + 8)]

LibraryFileHeaderBytes(h) ==
  h.magicNumber \o U32Bytes(h.assetRefCount) \o U32Bytes(h.pathByteCount)

LibraryFileHeaderAt(b) ==
  [magicNumber   |-> SubSeq(b, 1, MagicLen),
   assetRefCount |-> U32At(b, MagicLen),
   pathByteCount |-> U32At(b, MagicLen + 4)]

\* the i-th char of the C string s (1-based), NUL from its terminator on
CharAt(s, i) == IF i <= Len(s) THEN s[i] ELSE 0

\* only the characters of s compared, not its terminator
Strncmp_NoTerminator(a, s, n) ==
  \E i \in 1..Len(s) :
    /\ CharAt(a, i) # CharAt(s, i)
    /\ \A j \in 1..(i - 1) : CharAt(a, j) = CharAt(s, j) /\ CharAt(a, j) # 0

\* strncmp(a, s, n) != 0, for a char array a and the string literal s
Strncmp(a, s, n) ==
  \E i \in 1..n :
    /\ CharAt(a, i) # CharAt(s, i)
    /\ \A j \in 1..(i - 1) : CharAt(a, j) = CharAt(s, j) /\ CharAt(a, j) # 0

\* std::string(blob.data() + off): the bytes from off up to the next NUL
CStringAt(blob, off) ==
  LET nuls == {i \in (off + 1)..Len(blob) : blob[i] = 0}
      end  == IF nuls = {} THEN Len(blob) + 1 ELSE MinOf(nuls)
  IN  SubSeq(blob, off + 1, end - 1)

NoLib ==
  [valid |-> FALSE, _assetRefs |-> <<>>, _pathData |-> <<>>,
   _staticMeshHandleCache |-> <<>>]

\* what the library object was built from: the addMeshRef calls it stands
\* for, and the calls behind the library file last written; log lists the
\* calls made on the mesh file handle since it was opened
NoHist == [calls |-> <<>>, written |-> <<>>, log |-> <<>>]

\* "L"
LibPath == <<76>>

\* "a"
PathA == <<97>>

\* "b"
PathB == <<98>>

EmptyPath == <<>>

emptyLibraryFileHandle ==
  /\ status = "running"
  /\ ~lib.valid
  /\ lib' = [NoLib EXCEPT !.valid = TRUE]
  /\ opens' = <<>>
  /\ hist' = [hist EXCEPT !.calls = <<>>]
  /\ last' = Called("emptyLibraryFileHandle", <<>>, 0, 0)
  /\ UNCHANGED <<fs, input, handle, vbuf, ibuf, status, otherVars>>

\* the bytes LibraryFileHandleBuffer::write puts into the file; rest is the
\* content of the bytes of header.magicNumber that strcpy did not write
LibraryFileBytes(refs, blob, rest) ==
  LibraryFileHeaderBytes(
      [magicNumber   |-> MagicField(LibraryFileHeader_MAGIC_NUMBER, rest),
       assetRefCount |-> Len(refs),
       pathByteCount |-> Len(blob)])
    \o Flatten([i \in 1..Len(refs) |-> LibraryAssetRefBytes(refs[i])])
    \o blob

LibraryFileHandleBuffer_write(path) ==
  /\ status = "running"
  /\ lib.valid
  /\ IF Writable(path)
       THEN /\ \E rest \in GarbageBytes :
                 fs' = [fs EXCEPT ![path] =
                          File(LibraryFileBytes(lib._assetRefs, lib._pathData, rest))]
            /\ hist' = [hist EXCEPT !.written = hist.calls]
       ELSE UNCHANGED <<fs, hist>>
  /\ last' = Called("write", path, 0, 0)
  /\ UNCHANGED <<input, handle, lib, vbuf, ibuf, status, opens, otherVars>>

\* the process ends in std::exit(-1) inside op
Exit(op, path, id) ==
  /\ status' = "exited"
  /\ last' = Called(op, path, id, 0)

\* openLibraryFile(path) from the header check on; hdr0 is the header object
\* before file.read
OpenLibraryFileRead(path, hdr0) ==
  LET r1     == StreamRead(StreamOpen(path), SizeofLibraryFileHeader)
      header == LibraryFileHeaderAt(Overlay(hdr0, r1.got))
      nref   == header.assetRefCount * SizeofLibraryAssetRef
      r2     == StreamRead(r1.s, nref)
      refsIm == Overlay(Fill(nref, 0), r2.got)
      r3     == StreamRead(r2.s, header.pathByteCount)
  IN  IF Strncmp(header.magicNumber, LibraryFileHeader_MAGIC_NUMBER, MagicLen)
        THEN /\ Exit("openLibraryFile", path, 0)
             /\ UNCHANGED <<lib, opens, hist>>
        ELSE /\ lib' = [valid      |-> TRUE,
                        _assetRefs |-> [i \in 1..header.assetRefCount |->
                                          LibraryAssetRefAt(refsIm, (i - 1) * SizeofLibraryAssetRef)],
                        _pathData  |-> Overlay(Fill(header.pathByteCount, 0), r3.got),
                        _staticMeshHandleCache |-> <<>>]
             /\ opens' = <<>>
             /\ hist' = [hist EXCEPT !.calls = hist.written]
             /\ last' = Called("openLibraryFile", path, 0, 0)
             /\ UNCHANGED status

\* the values the two counts of the stack header may hold before file.read:
\* they are never written; when the file holds the whole header the read
\* overwrites them and the choice cannot be observed
GarbageCounts(path) ==
  IF Len(FileOf(path).data) >= SizeofLibraryFileHeader
    THEN {<<0, 0>>}
    ELSE {0, 1} \X {0, 1}

openLibraryFile(path) ==
  /\ status = "running"
  /\ IF ~StreamOpen(path).open
       THEN /\ Exit("openLibraryFile", path, 0)
            /\ UNCHANGED <<lib, opens, hist>>
       ELSE \E rest \in GarbageBytes, g \in GarbageCounts(path) :
              \* the header is a stack object: its constructor copies the
              \* magic string, magicNumber[0] is then cleared, the rest of
              \* the array and the two counts are never written
              OpenLibraryFileRead(path,
                Overlay(MagicField(LibraryFileHeader_MAGIC_NUMBER, rest), <<0>>)
                  \o U32Bytes(g[1]) \o U32Bytes(g[2]))
  /\ UNCHANGED <<fs, input, handle, vbuf, ibuf, otherVars>>

\* the path appended without its terminator
AddMeshRef_NoTerminator(l, id, path) ==
  [l EXCEPT !._assetRefs = Append(@, [assetID    |-> id,
                                      assetType  |-> AssetType_StaticMesh,
                                      pathOffset |-> Len(l._pathData)]),
            !._pathData  = @ \o path]

\* the library data after addMeshRef(id, path)
AddMeshRef(l, id, path) ==
  [l EXCEPT !._assetRefs = Append(@, [assetID    |-> id,
                                      assetType  |-> AssetType_StaticMesh,
                                      pathOffset |-> Len(l._pathData)]),
            !._pathData  = @ \o path \o <<0>>]

\* an addMeshRef that refuses an id the library already lists
LibraryFileHandleBuffer_addMeshRef_Unique(id, path) ==
  /\ status = "running"
  /\ lib.valid
  /\ Len(lib._assetRefs) < MaxRefs
  /\ IF \E i \in 1..Len(lib._assetRefs) : lib._assetRefs[i].assetID = id
       THEN UNCHANGED <<lib, hist>>
       ELSE /\ lib' = AddMeshRef(lib, id, path)
            /\ hist' = [hist EXCEPT !.calls = Append(@, <<id, path>>)]
  /\ last' = Called("addMeshRef", path, id, 0)
  /\ UNCHANGED <<fs, input, handle, vbuf, ibuf, status, opens, otherVars>>

LibraryFileHandleBuffer_addMeshRef(id, path) ==
  /\ status = "running"
  /\ lib.valid
  /\ Len(lib._assetRefs) < MaxRefs
  /\ lib' = AddMeshRef(lib, id, path)
  /\ hist' = [hist EXCEPT !.calls = Append(@, <<id, path>>)]
  /\ last' = Called("addMeshRef", path, id, 0)
  /\ UNCHANGED <<fs, input, handle, vbuf, ibuf, status, opens, otherVars>>

\* the refs the scan of _getStaticMeshFileHandle(MeshID) accepts
MatchingRefs(l, id) ==
  {i \in 1..Len(l._assetRefs) :
     /\ l._assetRefs[i].assetID = id
     /\ l._assetRefs[i].assetType = AssetType_StaticMesh}

\* the scan stopping at the first ref it accepts
ResolvedPath_First(l, id) ==
  IF MatchingRefs(l, id) = {}
    THEN EmptyPath
    ELSE CStringAt(l._pathData, l._assetRefs[MinOf(MatchingRefs(l, id))].pathOffset)

\* the path the scan ends with: empty if no ref was accepted
ResolvedPath(l, id) ==
  IF MatchingRefs(l, id) = {}
    THEN EmptyPath
    ELSE CStringAt(l._pathData, l._assetRefs[MaxOf(MatchingRefs(l, id))].pathOffset)

\* a lookup that never finds the entry
Cached_Never(l, path) == FALSE

\* _staticMeshHandleCache.find(path) != end()
Cached(l, path) == path \in DOMAIN l._staticMeshHandleCache

\* the test left out
Unresolved_Never(path) == FALSE

\* path.empty(), the test that ends the process
Unresolved(path) == path = EmptyPath

\* a cache that keeps only the handle it opened last
_getStaticMeshFileHandle_path_Evicting(l, path) ==
  IF Cached(l, path)
    THEN [opened |-> FALSE, lib |-> l]
    ELSE [opened |-> TRUE,
          lib    |-> [l EXCEPT !._staticMeshHandleCache =
                        (path :> OpenedStaticMeshFile(path))]]

\* _getStaticMeshFileHandle(path) on library data l: whether the cache held
\* the path, and the library data with the handle of path in its cache
_getStaticMeshFileHandle_path(l, path) ==
  IF Cached(l, path)
    THEN [opened |-> FALSE, lib |-> l]
    ELSE [opened |-> TRUE,
          lib    |-> [l EXCEPT !._staticMeshHandleCache =
                        (path :> OpenedStaticMeshFile(path)) @@ @]]

\* _getStaticMeshFileHandle(id) on library data l: exit is set when the
\* process ends in std::exit, else the handle of path is in the cache of lib
_getStaticMeshFileHandle_id(l, id) ==
  LET path == ResolvedPath(l, id) IN
  IF Unresolved(path)
    THEN [exit |-> TRUE, path |-> path, opened |-> FALSE, lib |-> l]
    ELSE LET g == _getStaticMeshFileHandle_path(l, path)
         IN  [exit |-> FALSE, path |-> path, opened |-> g.opened, lib |-> g.lib]

\* the count of openStaticMeshFile calls per path, after lookup g
OpensAfter(g) ==
  IF g.opened
    THEN (g.path :> (IF g.path \in DOMAIN opens THEN opens[g.path] + 1 ELSE 1)) @@ opens
    ELSE opens

LibraryFileHandleBuffer_getMeshData(id) ==
  /\ status = "running"
  /\ lib.valid
  /\ LET g == _getStaticMeshFileHandle_id(lib, id) IN
       IF g.exit
         THEN /\ Exit("lib.getMeshData", g.path, id)
              /\ UNCHANGED <<lib, opens>>
         ELSE /\ lib' = g.lib
              /\ opens' = OpensAfter(g)
              /\ last' = Called("lib.getMeshData", g.path, id,
                                GetMeshData(g.lib._staticMeshHandleCache[g.path], id))
              /\ UNCHANGED status
  /\ UNCHANGED <<fs, input, handle, vbuf, ibuf, hist, otherVars>>

LibraryFileHandleBuffer_readMesh(id) ==
  /\ status = "running"
  /\ lib.valid
  /\ LET g == _getStaticMeshFileHandle_id(lib, id) IN
       IF g.exit
         THEN /\ Exit("lib.readMesh", g.path, id)
              /\ UNCHANGED <<lib, opens, vbuf, ibuf>>
         ELSE LET r == ReadMesh(g.lib._staticMeshHandleCache[g.path], id,
                                FreshVerts, FreshIndices)
              IN  /\ lib' = [g.lib EXCEPT !._staticMeshHandleCache[g.path] = r.h]
                  /\ opens' = OpensAfter(g)
                  /\ vbuf' = r.verts
                  /\ ibuf' = r.indices
                  /\ last' = Called("lib.readMesh", g.path, id, IF r.ret THEN 1 ELSE 0)
                  /\ UNCHANGED status
  /\ UNCHANGED <<fs, input, handle, hist, otherVars>>

(* --------------------------- the mesh-file program --------------------- *)

InitMesh ==
  /\ fs = [p \in {MeshPath, BadPath} |-> NoFile]
  /\ input \in MeshInputs
  /\ handle = NoHandle
  /\ lib = NoLib
  /\ vbuf = FreshVerts
  /\ ibuf = FreshIndices
  /\ last = Called("none", <<>>, 0, 0)
  /\ status = "running"
  /\ opens = <<>>
  /\ hist = NoHist
  /\ OthersIdle

NextMesh ==
  \/ \E p \in {MeshPath, BadPath} : writeStaticMeshFile(p)
  \/ openStaticMeshFile(MeshPath)
  \/ closeStaticMeshFile
  \/ \E id \in QueryIDs : StaticMeshFileHandleBuffer_getMeshData(id)
  \/ \E id \in QueryIDs : StaticMeshFileHandleBuffer_readMesh(id)

SpecMesh == InitMesh /\ [][NextMesh]_vars

(* ---------------------------- the library program --------------------- *)

\* the mesh file found at PathA: ids 7 and 9
MeshInputA ==
  [meshes  |-> <<MeshRecord(7, <<0, 1>>, <<0, 1>>), MeshRecord(9, <<1, 1>>, <<1, 1>>)>>,
   verts   |-> [v \in 1..2 |-> VertexValue(v - 1)],
   indices |-> [k \in 1..2 |-> IndexValue(k - 1)]]

\* the mesh file found at PathB: id 9 only
MeshInputB ==
  [meshes  |-> <<MeshRecord(9, <<0, 2>>, <<1, 1>>)>>,
   verts   |-> [v \in 1..2 |-> VertexValue(v + 1)],
   indices |-> [k \in 1..2 |-> IndexValue(k + 1)]]

\* the files on disk when the library program starts, but for the library
MeshFilesOnDisk ==
  (PathA :> File(StaticMeshFileBytes(MeshInputA, 0)))
    @@ (PathB :> File(StaticMeshFileBytes(MeshInputB, 0)))
    @@ (BadPath :> NoFile)

RefPaths == {PathA, PathB, EmptyPath}

InitLib ==
  /\ fs = (LibPath :> NoFile) @@ MeshFilesOnDisk
  /\ input = NoInput
  /\ handle = NoHandle
  /\ lib = NoLib
  /\ vbuf = FreshVerts
  /\ ibuf = FreshIndices
  /\ last = Called("none", <<>>, 0, 0)
  /\ status = "running"
  /\ opens = <<>>
  /\ hist = NoHist
  /\ OthersIdle

NextLib ==
  \/ emptyLibraryFileHandle
  \/ \E id \in MeshIDs, p \in RefPaths : LibraryFileHandleBuffer_addMeshRef(id, p)
  \/ \E p \in {LibPath, BadPath} : LibraryFileHandleBuffer_write(p)
  \/ \E p \in {LibPath, BadPath} : openLibraryFile(p)
  \/ \E id \in QueryIDs : LibraryFileHandleBuffer_getMeshData(id)
  \/ \E id \in QueryIDs : LibraryFileHandleBuffer_readMesh(id)

SpecLib == InitLib /\ [][NextLib]_vars

(* -------------------- the program that opens a library ----------------- *)

AssetTypes == {AssetType_StaticMesh, AssetType_Texture}

\* the refs a library file found on disk may list: <<id, type, path>>
FileRefLists ==
  UNION {[1..n -> MeshIDs \X AssetTypes \X RefPaths] : n \in 0..MaxFileRefs}

\* the library data that lists es, laid out as addMeshRef lays it out
RECURSIVE LibraryOf(_)
LibraryOf(es) ==
  IF es = <<>>
    THEN NoLib
    ELSE LET n == Len(es)
             l == AddMeshRef(LibraryOf(SubSeq(es, 1, n - 1)), es[n][1], es[n][3])
         IN  [l EXCEPT !._assetRefs[n].assetType = es[n][2]]

\* the library files a writer of this format leaves on disk
ValidLibraryFiles ==
  {LibraryFileBytes(LibraryOf(es)._assetRefs, LibraryOf(es)._pathData, rest) :
     es \in FileRefLists, rest \in GarbageBytes}

\* values a damaged byte may take
DamagedBytes == {0, 1, 204}

\* valid library files of at most one ref with one byte of the magic-number
\* field changed
DamagedLibraryFiles ==
  {[b EXCEPT ![k] = v] :
     b \in {f \in ValidLibraryFiles : U32At(f, MagicLen) <= 1},
     k \in 1..MagicLen, v \in DamagedBytes} \ ValidLibraryFiles

InitLibOpen ==
  /\ \E b \in ValidLibraryFiles \cup DamagedLibraryFiles :
       fs = (LibPath :> File(b)) @@ MeshFilesOnDisk
  /\ input = NoInput
  /\ handle = NoHandle
  /\ lib = NoLib
  /\ vbuf = FreshVerts
  /\ ibuf = FreshIndices
  /\ last = Called("none", <<>>, 0, 0)
  /\ status = "running"
  /\ opens = <<>>
  /\ hist = NoHist
  /\ OthersIdle

NextLibOpen ==
  \/ \E p \in {LibPath, BadPath} : openLibraryFile(p)
  \/ \E id \in QueryIDs : LibraryFileHandleBuffer_getMeshData(id)
  \/ \E id \in QueryIDs : LibraryFileHandleBuffer_readMesh(id)

SpecLibOpen == InitLibOpen /\ [][NextLibOpen]_vars

(* ------------- a program opening a library file cut short -------------- *)

\* the library files listing one and two refs, as write leaves them
WholeLibraryFiles ==
  {LibraryFileBytes(LibraryOf(es)._assetRefs, LibraryOf(es)._pathData, 0) :
     es \in {<<<<7, AssetType_StaticMesh, PathA>>>>,
             <<<<7, AssetType_StaticMesh, PathA>>, <<9, AssetType_StaticMesh, PathB>>>>}}

\* the lengths a library file may have been cut to: empty, its first byte,
\* inside the magic string, the magic string without and with its NUL, the
\* magic-number field, inside assetRefCount, before pathByteCount, inside
\* pathByteCount, the header, and the whole file
LibraryCutPoints(bytes) ==
  {0, 1, MagicLen - 22, Len(LibraryFileHeader_MAGIC_NUMBER),
   Len(LibraryFileHeader_MAGIC_NUMBER) + 1, MagicLen, MagicLen + 2,
   MagicLen + SizeofU32, MagicLen + SizeofU32 + 2, SizeofLibraryFileHeader,
   Len(bytes)}

CutLibraryFiles ==
  UNION {{SubSeq(b, 1, n) : n \in LibraryCutPoints(b)} : b \in WholeLibraryFiles}

InitLibCut ==
  /\ \E b \in CutLibraryFiles :
       fs = (LibPath :> File(b)) @@ MeshFilesOnDisk
  /\ input = NoInput
  /\ handle = NoHandle
  /\ lib = NoLib
  /\ vbuf = FreshVerts
  /\ ibuf = FreshIndices
  /\ last = Called("none", <<>>, 0, 0)
  /\ status = "running"
  /\ opens = <<>>
  /\ hist = NoHist
  /\ OthersIdle

SpecLibCut == InitLibCut /\ [][NextLibOpen]_vars

(* ------------- a program reading a mesh file it finds on disk ---------- *)

\* a caller's table whose second record runs one element past the end of
\* the vertex pool and of the index pool
MeshInputPastEnd ==
  [MeshInputA EXCEPT !.meshes[2] = MeshRecord(9, <<1, 2>>, <<1, 2>>)]

\* the lengths a copy of the written file bytes may have been cut to: empty,
\* inside the magic number, inside meshCount, after the header, inside the
\* record table, after the table, inside the vertex section, and one index
\* short of the end
CutPoints(bytes) ==
  LET h == StaticMeshFileHeaderAt(bytes)
      t == SizeofStaticMeshFileHeader + h.meshCount * SizeofStaticMeshData
      v == t + h.vertexCount * SizeofStaticVertexData
  IN  {0, MagicLen - 12, MagicLen + 2, SizeofStaticMeshFileHeader,
       t - SizeofU32, t, v - SizeofU32, Len(bytes) - SizeofU16}

\* what may stand in the first 32 bytes of a file that is no mesh file, or
\* that another writer produced
ForeignMagics ==
  {Fill(MagicLen, 0),
   MagicField(LibraryFileHeader_MAGIC_NUMBER, 0),
   MagicField(StaticMeshFileHeader_MAGIC_NUMBER, 204)}

\* bytes with their first 32 bytes replaced by magic
WithMagic(bytes, magic) == magic \o SubSeq(bytes, MagicLen + 1, Len(bytes))

\* the files the program may find at MeshPath
FoundMeshFiles ==
  LET good == StaticMeshFileBytes(MeshInputA, 0)
      past == StaticMeshFileBytes(MeshInputPastEnd, 0)
  IN  {NoFile, File(good), File(past), File(StaticMeshFileBytes(MeshInputB, 0))}
        \cup {File(SubSeq(good, 1, n)) : n \in CutPoints(good)}
        \cup {File(WithMagic(good, m)) : m \in ForeignMagics}
        \cup {File(WithMagic(past, m)) : m \in ForeignMagics}

InitMeshFound ==
  /\ fs \in {[p \in {MeshPath, BadPath} |-> IF p = MeshPath THEN f ELSE NoFile] :
               f \in FoundMeshFiles}
  /\ input = NoInput
  /\ handle = NoHandle
  /\ lib = NoLib
  /\ vbuf = FreshVerts
  /\ ibuf = FreshIndices
  /\ last = Called("none", <<>>, 0, 0)
  /\ status = "running"
  /\ opens = <<>>
  /\ hist = NoHist
  /\ OthersIdle

\* an open that ends the process on a foreign magic number, as
\* openLibraryFile does
Found_openStaticMeshFile_Validating ==
  /\ status = "running"
  /\ LET h == OpenedStaticMeshFile(MeshPath) IN
       IF Strncmp(h._header.magicNumber, StaticMeshFileHeader_MAGIC_NUMBER, MagicLen)
         THEN /\ Exit("openStaticMeshFile", MeshPath, 0)
              /\ UNCHANGED <<handle, hist>>
         ELSE /\ handle' = h
              /\ last' = Called("openStaticMeshFile", MeshPath, 0, 0)
              /\ hist' = [hist EXCEPT !.log = <<>>]
              /\ UNCHANGED status
  /\ UNCHANGED <<fs, input, lib, vbuf, ibuf, opens, otherVars>>

\* openStaticMeshFile(MeshPath); the log of the new handle starts empty
Found_openStaticMeshFile ==
  /\ status = "running"
  /\ handle' = OpenedStaticMeshFile(MeshPath)
  /\ last' = Called("openStaticMeshFile", MeshPath, 0, 0)
  /\ hist' = [hist EXCEPT !.log = <<>>]
  /\ UNCHANGED <<fs, input, lib, vbuf, ibuf, status, opens, otherVars>>

\* handle->getMeshData(id), logged
Found_getMeshData(id) ==
  /\ status = "running"
  /\ handle.valid
  /\ Len(hist.log) < MaxCalls
  /\ last' = Called("getMeshData", <<>>, id, GetMeshData(handle, id))
  /\ hist' = [hist EXCEPT !.log = Append(@, <<"getMeshData", id>>)]
  /\ UNCHANGED <<fs, input, handle, lib, vbuf, ibuf, status, opens, otherVars>>

\* handle->readMesh(id, verts, indices) into fresh buffers, logged
Found_readMesh(id) ==
  /\ status = "running"
  /\ handle.valid
  /\ Len(hist.log) < MaxCalls
  /\ LET r == ReadMesh(handle, id, FreshVerts, FreshIndices) IN
       /\ handle' = r.h
       /\ vbuf' = r.verts
       /\ ibuf' = r.indices
       /\ last' = Called("readMesh", <<>>, id, IF r.ret THEN 1 ELSE 0)
  /\ hist' = [hist EXCEPT !.log = Append(@, <<"readMesh", id>>)]
  /\ UNCHANGED <<fs, input, lib, status, opens, otherVars>>

NextMeshFound ==
  \/ Found_openStaticMeshFile
  \/ \E id \in QueryIDs : Found_getMeshData(id)
  \/ \E id \in QueryIDs : Found_readMesh(id)

SpecMeshFound == InitMeshFound /\ [][NextMeshFound]_vars

(* --------------------- DescriptorLayoutCache (gfx.cc) ------------------- *)

\* the fields of a VkDescriptorSetLayoutBinding that operator == compares
LayoutBinding(binding, type) ==
  [binding |-> binding, descriptorType |-> type,
   descriptorCount |-> 1, stageFlags |-> 1]

\* the bindings callers put into their create-infos: a uniform buffer and a
\* storage buffer at binding 0, a uniform buffer at binding 1
BindingPool ==
  {LayoutBinding(0, 6), LayoutBinding(0, 7), LayoutBinding(1, 6)}

\* info->pBindings of the create-infos handed to createDescriptorLayout
CreateInfos ==
  UNION {[1..n -> BindingPool] : n \in 0..MaxBindings}

\* binding > lastBinding with binding a uint32_t and lastBinding an int: the
\* int is converted to uint32_t, and -1, the only negative value it takes,
\* becomes the largest uint32_t, which no binding exceeds
GreaterAsUint32(binding, lastBinding) ==
  IF lastBinding = -1 THEN FALSE ELSE binding > lastBinding

\* the loop of createDescriptorLayout from element i on: isSorted at its end
RECURSIVE IsSortedFrom(_, _, _, _)
IsSortedFrom(bs, i, lastBinding, isSorted) ==
  IF i > Len(bs)
    THEN isSorted
    ELSE IF GreaterAsUint32(bs[i].binding, lastBinding)
           THEN IsSortedFrom(bs, i + 1, bs[i].binding, isSorted)
           ELSE IsSortedFrom(bs, i + 1, lastBinding, FALSE)

\* s lists the elements of t, each as often as t does
SameBag(s, t) ==
  /\ Len(s) = Len(t)
  /\ \A x \in BindingPool :
       Cardinality({i \in 1..Len(s) : s[i] = x})
         = Cardinality({i \in 1..Len(t) : t[i] = x})

\* no sort at all
SortOutcomes_Unsorted(bs) == {bs}

\* what std::sort with the comparator a.binding > b.binding may leave: the
\* elements in descending order of binding, elements of one binding number
\* in an order the library does not specify
SortOutcomes(bs) ==
  {s \in [1..Len(bs) -> BindingPool] :
     /\ SameBag(s, bs)
     /\ \A i \in 1..(Len(s) - 1) : s[i].binding >= s[i + 1].binding}

\* layoutInfo.bindings when the cache is searched
LayoutInfos(bs) ==
  IF IsSortedFrom(bs, 1, -1, TRUE) THEN {bs} ELSE SortOutcomes(bs)

\* createDescriptorLayout(info); a new layout gets the next handle
createDescriptorLayout(bs) ==
  /\ \E layoutInfo \in LayoutInfos(bs) :
       IF layoutInfo \in DOMAIN layoutCache
         THEN /\ last' = Called("createDescriptorLayout", bs, 0, layoutCache[layoutInfo])
              /\ UNCHANGED layoutCache
         ELSE /\ Cardinality(DOMAIN layoutCache) < MaxLayouts
              /\ layoutCache' = (layoutInfo :> Cardinality(DOMAIN layoutCache) + 1)
                                  @@ layoutCache
              /\ last' = Called("createDescriptorLayout", bs, 0,
                                Cardinality(DOMAIN layoutCache) + 1)
  /\ UNCHANGED <<assetVars, allocator, engine, iddb>>

\* DescriptorLayoutCache::cleanup(): the layouts are destroyed with the cache
DescriptorLayoutCache_cleanup ==
  /\ layoutCache # EmptyLayoutCache
  /\ layoutCache' = EmptyLayoutCache
  /\ last' = Called("cleanup", <<>>, 0, 0)
  /\ UNCHANGED <<assetVars, allocator, engine, iddb>>

InitGfx ==
  /\ fs = <<>>
  /\ input = NoInput
  /\ handle = NoHandle
  /\ lib = NoLib
  /\ vbuf = <<>>
  /\ ibuf = <<>>
  /\ last = Called("none", <<>>, 0, 0)
  /\ status = "running"
  /\ opens = <<>>
  /\ hist = NoHist
  /\ OthersIdle

NextLayouts ==
  \/ \E bs \in CreateInfos : createDescriptorLayout(bs)
  \/ DescriptorLayoutCache_cleanup

SpecLayouts == InitGfx /\ [][NextLayouts]_vars

(* ---------------------- DescriptorAllocator (gfx.cc) -------------------- *)

\* the elements of the sequence s
Range(s) == {s[i] : i \in 1..Len(s)}

\* what the device may do to one vkAllocateDescriptorSets call besides
\* serving it: report the pool fragmented, or fail for another reason
AllocFaults == {"none", "fragmented", "device"}

\* the VkResult of vkAllocateDescriptorSets from pool under fault; a pool
\* holds at most MaxSets sets
VkAllocateResult(a, pool, fault) ==
  IF fault = "device" THEN "VK_ERROR_DEVICE_LOST"
  ELSE IF a.sets[pool] >= MaxSets THEN "VK_ERROR_OUT_OF_POOL_MEMORY"
  ELSE IF fault = "fragmented" /\ a.sets[pool] > 0 THEN "VK_ERROR_FRAGMENTED_POOL"
  ELSE "VK_SUCCESS"

\* the allocator after vkAllocateDescriptorSets from pool under fault
VkAllocate(a, pool, fault) ==
  LET r == VkAllocateResult(a, pool, fault)
      b == [a EXCEPT !.attempts = Append(@, pool)]
  IN  IF r = "VK_SUCCESS" THEN [b EXCEPT !.sets[pool] = @ + 1] ELSE b

\* a grabPool that leaves the pool it returns on the free list
GrabPool_NoPop(a) ==
  IF Len(a._freePools) > 0
    THEN [pool |-> a._freePools[Len(a._freePools)], a |-> a]
    ELSE [pool |-> a.created + 1,
          a    |-> [a EXCEPT !.created = @ + 1,
                             !.sets = ((a.created + 1) :> 0) @@ @]]

\* grabPool(): the pool it returns and the allocator afterwards;
\* createPool's vkCreateDescriptorPool is taken to succeed and hands out
\* the next pool handle
GrabPool(a) ==
  IF Len(a._freePools) > 0
    THEN [pool |-> a._freePools[Len(a._freePools)],
          a    |-> [a EXCEPT !._freePools = SubSeq(@, 1, Len(@) - 1)]]
    ELSE [pool |-> a.created + 1,
          a    |-> [a EXCEPT !.created = @ + 1,
                             !.sets = ((a.created + 1) :> 0) @@ @]]

\* _currentPool = grabPool(); _usedPools.push_back(_currentPool);
GrabCurrent(a) ==
  LET g == GrabPool(a) IN
    [g.a EXCEPT !._currentPool = g.pool, !._usedPools = Append(@, g.pool)]

\* allocate(set, layout) on allocator a0, the device answering the first
\* vkAllocateDescriptorSets under fault f1 and the second under f2
Allocate(a0, f1, f2) ==
  LET a1 == IF a0._currentPool = VK_NULL_HANDLE
              THEN GrabCurrent([a0 EXCEPT !.attempts = <<>>])
              ELSE [a0 EXCEPT !.attempts = <<>>]
      \* allocInfo.descriptorPool is set here, once
      descriptorPool == a1._currentPool
      r1 == VkAllocateResult(a1, descriptorPool, f1)
      a2 == VkAllocate(a1, descriptorPool, f1)
  IN  IF r1 = "VK_SUCCESS" THEN [ret |-> TRUE, a |-> a2]
      ELSE IF r1 \in {"VK_ERROR_FRAGMENTED_POOL", "VK_ERROR_OUT_OF_POOL_MEMORY"}
        THEN LET a3 == GrabCurrent(a2)
                 r2 == VkAllocateResult(a3, descriptorPool, f2)
             IN  [ret |-> r2 = "VK_SUCCESS", a |-> VkAllocate(a3, descriptorPool, f2)]
      ELSE [ret |-> FALSE, a |-> a2]

DescriptorAllocator_allocate(f1, f2) ==
  /\ LET r == Allocate(allocator, f1, f2) IN
       /\ r.a.created <= MaxPools
       /\ allocator' = r.a
       /\ last' = Called("allocate", <<>>, 0, IF r.ret THEN 1 ELSE 0)
  /\ UNCHANGED <<assetVars, layoutCache, engine, iddb>>

\* resetPools(): vkResetDescriptorPool frees the sets of every used pool
DescriptorAllocator_resetPools ==
  /\ allocator' =
       [allocator EXCEPT
          !.sets       = [p \in DOMAIN @ |->
                            IF p \in Range(allocator._usedPools) THEN 0 ELSE @[p]],
          !._freePools = @ \o allocator._usedPools,
          !._usedPools = <<>>,
          !._currentPool = VK_NULL_HANDLE,
          !.attempts   = <<>>]
  /\ last' = Called("resetPools", <<>>, 0, 0)
  /\ UNCHANGED <<assetVars, layoutCache, engine, iddb>>

NextAllocator ==
  \/ \E f1, f2 \in AllocFaults : DescriptorAllocator_allocate(f1, f2)
  \/ DescriptorAllocator_resetPools

SpecAllocator == InitGfx /\ [][NextAllocator]_vars

(* ------------------------- Engine::draw (gfx.cc) ----------------------- *)

\* what a Vulkan call that reports a VkResult may report
VkResults == {"VK_SUCCESS", "VK_ERROR"}

\* the fence of a slot after vkResetFences reported res: unsignalled on
\* success; after a failure it may or may not have been reset
FenceAfterReset(res) == IF res = "VK_SUCCESS" THEN {FALSE} ELSE {TRUE, FALSE}

\* std::exit(-1) inside draw()
Engine_exit(op) ==
  /\ status' = "exited"
  /\ engine' = [engine EXCEPT !.pc = "exited"]
  /\ last' = Called(op, <<>>, 0, -1)
  /\ UNCHANGED <<fs, input, handle, lib, vbuf, ibuf, opens, hist,
                 layoutCache, allocator, iddb>>

\* the engine moves on to step pc with record e
Engine_step(op, e) ==
  /\ engine' = e
  /\ last' = Called(op, <<>>, e._currentFrame, 0)
  /\ UNCHANGED <<assetVars, layoutCache, allocator, iddb>>

\* draw() begins: _acquireNextFrame advances _currentFrame
Engine_acquireNextFrame ==
  /\ status = "running"
  /\ engine.pc = "idle"
  /\ engine._framesDrawn < MaxDraws
  /\ Engine_step("_acquireNextFrame",
       [engine EXCEPT !._currentFrame = (@ + 1) % MAX_FRAMES_IN_FLIGHT,
                      !.pc = "vkWaitForFences"])

\* vkWaitForFences(..., UINT64_MAX) returns once the slot's fence is
\* signalled, or fails
Engine_vkWaitForFences(res) ==
  /\ status = "running"
  /\ engine.pc = "vkWaitForFences"
  /\ IF res = "VK_SUCCESS"
       THEN /\ engine.fence[engine._currentFrame]
            /\ Engine_step("vkWaitForFences", [engine EXCEPT !.pc = "vkResetFences"])
       ELSE Engine_exit("vkWaitForFences")

\* vkResetFences: a failure is logged and _acquireNextFrame returns the frame
Engine_vkResetFences(res) ==
  /\ status = "running"
  /\ engine.pc = "vkResetFences"
  /\ \E f \in FenceAfterReset(res) :
       Engine_step("vkResetFences",
         [engine EXCEPT !.fence[engine._currentFrame] = f,
                        !.pc = "vkResetCommandPool"])

\* vkAcquireNextImageKHR, then vkResetCommandPool(frame->commandPool)
Engine_vkResetCommandPool(res) ==
  /\ status = "running"
  /\ engine.pc = "vkResetCommandPool"
  /\ IF res = "VK_SUCCESS"
       THEN Engine_step("vkResetCommandPool", [engine EXCEPT !.pc = "vkQueueSubmit"])
       ELSE Engine_exit("vkResetCommandPool")

\* the command buffer is recorded and submitted with the slot's fence
Engine_vkQueueSubmit(res) ==
  /\ status = "running"
  /\ engine.pc = "vkQueueSubmit"
  /\ IF res = "VK_SUCCESS"
       THEN Engine_step("vkQueueSubmit",
              [engine EXCEPT !.inFlight = Append(@, engine._currentFrame),
                             !.pc = "vkQueuePresentKHR"])
       ELSE Engine_exit("vkQueueSubmit")

\* vkQueuePresentKHR, then _framesDrawn++ and draw() returns
Engine_vkQueuePresentKHR(res) ==
  /\ status = "running"
  /\ engine.pc = "vkQueuePresentKHR"
  /\ IF res = "VK_SUCCESS"
       THEN Engine_step("draw",
              [engine EXCEPT !._framesDrawn = @ + 1, !.pc = "idle"])
       ELSE Engine_exit("vkQueuePresentKHR")

\* the graphics queue finishes its oldest submission and signals the fence
\* that was submitted with it
GPU_finish ==
  /\ status = "running"
  /\ Len(engine.inFlight) > 0
  /\ engine' = [engine EXCEPT !.inFlight = Tail(@),
                              !.fence[Head(engine.inFlight)] = TRUE]
  /\ last' = Called("GPU_finish", <<>>, Head(engine.inFlight), 0)
  /\ UNCHANGED <<assetVars, layoutCache, allocator, iddb>>

NextEngine ==
  \/ Engine_acquireNextFrame
  \/ \E res \in VkResults : Engine_vkWaitForFences(res)
  \/ \E res \in VkResults : Engine_vkResetFences(res)
  \/ \E res \in VkResults : Engine_vkResetCommandPool(res)
  \/ \E res \in VkResults : Engine_vkQueueSubmit(res)
  \/ \E res \in VkResults : Engine_vkQueuePresentKHR(res)
  \/ GPU_finish

SpecEngine == InitGfx /\ [][NextEngine]_vars

(* ----------------------------- IDDB (str-id.h) ------------------------- *)

\* "i"
IDPath == <<105>>

\* '\n', written by std::endl and taken as the delimiter by getline
Newline == 10

\* char buf[1024]
LineBufferSize == 1024

\* the names a program registers: "", "a", "b", "a\0b", "b\n"
NamePool == {<<>>, <<97>>, <<98>>, <<97, 0, 98>>, <<98, Newline>>}

\* a getID that numbers a new name by the size before the push
GetID_SizeBefore(db, name) ==
  IF name \in DOMAIN db._nameToID
    THEN [ret |-> db._nameToID[name], db |-> db]
    ELSE [ret |-> Len(db._idToName),
          db  |-> [_idToName |-> Append(db._idToName, name),
                   _nameToID |-> (name :> Len(db._idToName)) @@ db._nameToID]]

\* getID(name): the id returned and the registry afterwards
GetID(db, name) ==
  IF name \in DOMAIN db._nameToID
    THEN [ret |-> db._nameToID[name], db |-> db]
    ELSE [ret |-> Len(db._idToName) + 1,
          db  |-> [_idToName |-> Append(db._idToName, name),
                   _nameToID |-> (name :> (Len(db._idToName) + 1)) @@ db._nameToID]]

\* the bytes write() puts out: every name followed by std::endl
RECURSIVE WrittenNames(_)
WrittenNames(names) ==
  IF names = <<>> THEN <<>>
  ELSE Head(names) \o <<Newline>> \o WrittenNames(Tail(names))

\* the first position >= pos of data that holds byte b, Len(data) + 1 if none
RECURSIVE FindByte(_, _, _)
FindByte(data, pos, b) ==
  IF pos > Len(data) THEN Len(data) + 1
  ELSE IF data[pos] = b THEN pos
  ELSE FindByte(data, pos + 1, b)

\* std::string(buf): the characters of buf before its first NUL
CString(buf) == SubSeq(buf, 1, FindByte(buf, 1, 0) - 1)

\* the loop of fromFile from position pos of the file: getline takes the
\* characters up to the next newline or the end of the file, setting eofbit
\* only when it meets the end; a line that does not fit buf sets failbit
\* only, after which no getline reaches the end of the file
RECURSIVE FromFileLoop(_, _, _)
FromFileLoop(data, pos, db) ==
  LET j    == FindByte(data, pos, Newline)
      line == SubSeq(data, pos, j - 1)
  IN  IF Len(line) > LineBufferSize - 1
        THEN [hung |-> TRUE,
              db   |-> GetID(db, CString(SubSeq(line, 1, LineBufferSize - 1))).db]
      ELSE LET db1 == GetID(db, CString(line)).db IN
        IF j > Len(data) THEN [hung |-> FALSE, db |-> db1]
        ELSE FromFileLoop(data, j + 1, db1)

IDDB_getID(name) ==
  /\ status = "running"
  /\ LET r == GetID(iddb, name) IN
       /\ Len(r.db._idToName) <= MaxNames
       /\ iddb' = r.db
       /\ last' = Called("getID", name, 0, r.ret)
  /\ UNCHANGED <<assetVars, layoutCache, allocator, engine>>

\* write(path); the std::ofstream is not tested
IDDB_write(path) ==
  /\ status = "running"
  /\ fs' = IF Writable(path)
             THEN [fs EXCEPT ![path] = File(WrittenNames(iddb._idToName))]
             ELSE fs
  /\ last' = Called("write", path, 0, 0)
  /\ UNCHANGED <<input, handle, lib, vbuf, ibuf, status, opens, hist, otherVars>>

\* db = IDDB::fromFile(path)
IDDB_fromFile(path) ==
  /\ status = "running"
  /\ last' = Called("fromFile", path, 0, 0)
  /\ IF ~FileOf(path).exists
       THEN /\ status' = "exited"
            /\ UNCHANGED iddb
       ELSE LET r == FromFileLoop(FileOf(path).data, 1, EmptyIDDB) IN
              /\ status' = IF r.hung THEN "hung" ELSE "running"
              /\ iddb' = r.db
  /\ UNCHANGED <<fs, input, handle, lib, vbuf, ibuf, opens, hist,
                 layoutCache, allocator, engine>>

InitIDDB ==
  /\ fs \in {IDPath :> NoFile, IDPath :> File(<<>>)}
  /\ input = NoInput
  /\ handle = NoHandle
  /\ lib = NoLib
  /\ vbuf = <<>>
  /\ ibuf = <<>>
  /\ last = Called("none", <<>>, 0, 0)
  /\ status = "running"
  /\ opens = <<>>
  /\ hist = NoHist
  /\ OthersIdle

NextIDDB ==
  \/ \E name \in NamePool : IDDB_getID(name)
  \/ \E path \in {IDPath, BadPath} : IDDB_write(path)
  \/ \E path \in {IDPath, BadPath} : IDDB_fromFile(path)

SpecIDDB == InitIDDB /\ [][NextIDDB]_vars

(* ------------------- how a caller reads its buffers -------------------- *)

\* the uint16_t stored at byte offset off (0-based) of image b
U16At(b, off) == b[off + 1] + 256 * b[off + 2]

\* verts[i] of a StaticVertexData buffer (0-based i)
StaticVertexDataAt(b, i) ==
  [j \in 1..11 |-> U32At(b, i * SizeofStaticVertexData + 4 * (j - 1))]

\* the first n vertices of the buffer b
VertsOf(b, n) == [i \in 1..n |-> StaticVertexDataAt(b, i - 1)]

\* the first n indices of the buffer b
IndicesOf(b, n) == [i \in 1..n |-> U16At(b, (i - 1) * SizeofU16)]

\* the bytes of buffer b from byte offset off on
BytesFrom(b, off) == SubSeq(b, off + 1, Len(b))

(* ----------------------------------------------------------------------- *)
(* Claims about the mesh file codec and the mesh file handle (SpecMesh)    *)
(* ----------------------------------------------------------------------- *)

DistinctIds(t) == \A i, j \in 1..Len(t) : t[i].id = t[j].id => i = j

InRange(in) ==
  \A i \in 1..Len(in.meshes) :
    /\ in.meshes[i].vertexOffset + in.meshes[i].vertexCount <= Len(in.verts)
    /\ in.meshes[i].indexOffset + in.meshes[i].indexCount <= Len(in.indices)

\* the record of the caller's table that carries id
InputRecord(id) ==
  input.meshes[CHOOSE i \in 1..Len(input.meshes) : input.meshes[i].id = id]

\* the handle was opened on the file writeStaticMeshFile produced
OpenedOnWritten == handle.valid /\ handle._stream.open

\* C1: mesh-file round trip.  For a table with pairwise distinct ids whose
\* ranges lie inside the pools, a handle opened on the written file carries
\* the counts (M, V, I) and the written records in order, and readMesh of a
\* written id returns true and delivers exactly the vertices and indices of
\* that record's ranges, touching nothing else of the buffers.
C1_RoundTrip ==
  (OpenedOnWritten /\ DistinctIds(input.meshes) /\ InRange(input)) =>
    /\ handle._header.meshCount = Len(input.meshes)
    /\ handle._header.vertexCount = Len(input.verts)
    /\ handle._header.indexCount = Len(input.indices)
    /\ handle._meshes = input.meshes
    /\ (last.op = "readMesh" /\ \E i \in 1..Len(input.meshes) : input.meshes[i].id = last.id) =>
         LET m == InputRecord(last.id) IN
           /\ last.ret = 1
           /\ VertsOf(vbuf, m.vertexCount)
                = SubSeq(input.verts, m.vertexOffset + 1, m.vertexOffset + m.vertexCount)
           /\ BytesFrom(vbuf, m.vertexCount * SizeofStaticVertexData)
                = BytesFrom(FreshVerts, m.vertexCount * SizeofStaticVertexData)
           /\ IndicesOf(ibuf, m.indexCount)
                = SubSeq(input.indices, m.indexOffset + 1, m.indexOffset + m.indexCount)
           /\ BytesFrom(ibuf, m.indexCount * SizeofU16)
                = BytesFrom(FreshIndices, m.indexCount * SizeofU16)

\* a two-record file was written and reopened, and the record that does not
\* start at the head of the pools was read back
C1_Witness ==
  /\ OpenedOnWritten
  /\ Len(input.meshes) = 2
  /\ DistinctIds(input.meshes)
  /\ last.op = "readMesh"
  /\ last.ret = 1
  /\ \E i \in 1..2 : /\ input.meshes[i].id = last.id
                     /\ input.meshes[i].vertexOffset > 0
                     /\ input.meshes[i].indexOffset > 0

\* C6: getMeshData of an id that no record of the table carries returns
\* nullptr, does not terminate the process and leaves the header, the record
\* table and the stream as they were.
C6_GetMeshDataNotFound ==
  [][(last'.op = "getMeshData" /\ MatchingRecords(handle, last'.id) = {}) =>
       /\ last'.ret = 0
       /\ status' = "running"
       /\ handle' = handle]_vars

C6_Witness ==
  /\ last.op = "getMeshData"
  /\ handle._stream.open
  /\ handle._header.meshCount > 0
  /\ MatchingRecords(handle, last.id) = {}
  /\ last.ret = 0
  /\ status = "running"

\* C7: readMesh of an id that no record of the table carries returns false,
\* writes no byte of either buffer and neither seeks nor reads the stream.
C7_ReadMeshNotFound ==
  [][(last'.op = "readMesh" /\ MatchingRecords(handle, last'.id) = {}) =>
       /\ last'.ret = 0
       /\ vbuf' = FreshVerts
       /\ ibuf' = FreshIndices
       /\ handle' = handle]_vars

C7_Witness ==
  /\ last.op = "readMesh"
  /\ handle._stream.open
  /\ handle._header.meshCount > 0
  /\ MatchingRecords(handle, last.id) = {}
  /\ last.ret = 0
  /\ vbuf = FreshVerts
  /\ ibuf = FreshIndices

\* C8: with several records of the same id in the table, getMeshData returns
\* the last of them in table order.
C8_GetMeshDataLast ==
  (last.op = "getMeshData" /\ handle.valid
     /\ Cardinality(MatchingRecords(handle, last.id)) >= 2) =>
    last.ret = MaxOf(MatchingRecords(handle, last.id))

\* C10: writeStaticMeshFile terminates the process when the destination
\* cannot be opened for writing.
C10_WriteOpenFailureFatal ==
  (last.op = "writeStaticMeshFile" /\ ~Writable(last.path)) => status = "exited"

\* C14: seek targets agree with the written layout.  For a handle opened on
\* the file written from a table of M records, V vertices and I indices,
\* readMesh of any record seeks its vertex read to 44 + 64*M + 44*vertexOffset
\* and its index read to 44 + 64*M + 44*V + 2*indexOffset, and at these file
\* positions stand the bytes of the caller's vertex number vertexOffset and
\* index number indexOffset.
C14_SeekTargets ==
  OpenedOnWritten =>
    \A i \in 1..Len(handle._meshes) :
      LET m     == handle._meshes[i]
          t     == ReadMeshStreams(handle, m)
          data  == FileOf(handle._stream.path).data
          table == SizeofStaticMeshFileHeader + Len(input.meshes) * SizeofStaticMeshData
      IN  /\ t.s1.pos = table + m.vertexOffset * SizeofStaticVertexData
          /\ t.s2.pos = table + Len(input.verts) * SizeofStaticVertexData
                          + m.indexOffset * SizeofU16
          /\ m.vertexOffset < Len(input.verts) =>
               SubSeq(data, t.s1.pos + 1, t.s1.pos + SizeofStaticVertexData)
                 = StaticVertexDataBytes(input.verts[m.vertexOffset + 1])
          /\ m.indexOffset < Len(input.indices) =>
               SubSeq(data, t.s2.pos + 1, t.s2.pos + SizeofU16)
                 = U16Bytes(input.indices[m.indexOffset + 1])

\* a record that starts inside both pools was read: the stream stands right
\* behind the index range it sought
C14_Witness ==
  /\ OpenedOnWritten
  /\ last.op = "readMesh"
  /\ last.ret = 1
  /\ LET m == handle._meshes[ReadMeshIdx(handle, last.id)] IN
       /\ m.vertexOffset > 0
       /\ m.indexOffset > 0
       /\ handle._stream.pos
            = SizeofStaticMeshFileHeader + Len(input.meshes) * SizeofStaticMeshData
                + Len(input.verts) * SizeofStaticVertexData
                + (m.indexOffset + m.indexCount) * SizeofU16

\* C15: consistent record resolution.  After readMesh(id) returned true,
\* the record it read is the one getMeshData(id) points at, and of buffers
\* sized from that record (vertexCount vertices, indexCount indices) nothing
\* behind their end was written, duplicate ids in the table included.
C15_SameRecord ==
  (handle.valid /\ last.op = "readMesh" /\ last.ret = 1) =>
    LET sized == handle._meshes[GetMeshData(handle, last.id)] IN
      /\ GetMeshData(handle, last.id) = ReadMeshIdx(handle, last.id)
      /\ BytesFrom(vbuf, sized.vertexCount * SizeofStaticVertexData)
           = BytesFrom(FreshVerts, sized.vertexCount * SizeofStaticVertexData)
      /\ BytesFrom(ibuf, sized.indexCount * SizeofU16)
           = BytesFrom(FreshIndices, sized.indexCount * SizeofU16)

(* ----------------------------------------------------------------------- *)
(* Claims about the library index and its handle cache (SpecLib)           *)
(* ----------------------------------------------------------------------- *)

LibraryLookups == {"lib.getMeshData", "lib.readMesh"}

\* C2: single open per path.  The library object has opened no path more
\* than once, its cache holds a handle for exactly the paths it opened, and
\* the path the last lookup resolved to is among them.
C2_SingleOpenPerPath ==
  lib.valid =>
    /\ \A p \in DOMAIN opens : opens[p] <= 1
    /\ DOMAIN lib._staticMeshHandleCache = DOMAIN opens
    /\ (last.op \in LibraryLookups /\ status = "running") =>
         last.path \in DOMAIN lib._staticMeshHandleCache

\* ids 7 and 9 both live in the file at PathA; 7 was read through the cache
\* (the stream stands behind its index range) and 9 was then looked up
C2_Witness ==
  /\ lib.valid
  /\ ResolvedPath(lib, 7) = PathA
  /\ ResolvedPath(lib, 9) = PathA
  /\ last = Called("lib.getMeshData", PathA, 9, 2)
  /\ PathA \in DOMAIN lib._staticMeshHandleCache
  /\ lib._staticMeshHandleCache[PathA]._stream.pos
       = _indexOffsetToBytes(lib._staticMeshHandleCache[PathA], 1)
  /\ opens[PathA] = 1

\* C3: library round trip.  The handle openLibraryFile returns for a file
\* written by write has one ref per addMeshRef call behind that file, in
\* call order, each with the id of its call, type mesh, and the path of its
\* call as the NUL-terminated string at its pathOffset.
C3_LibraryRoundTrip ==
  (last.op = "openLibraryFile" /\ status = "running") =>
    /\ Len(lib._assetRefs) = Len(hist.written)
    /\ \A i \in 1..Len(hist.written) :
         /\ i <= Len(lib._assetRefs)
         /\ lib._assetRefs[i].assetID = hist.written[i][1]
         /\ lib._assetRefs[i].assetType = AssetType_StaticMesh
         /\ lib._assetRefs[i].pathOffset < Len(lib._pathData)
         /\ CStringAt(lib._pathData, lib._assetRefs[i].pathOffset) = hist.written[i][2]

C3_Witness ==
  /\ last.op = "openLibraryFile"
  /\ status = "running"
  /\ Len(hist.written) = 2
  /\ hist.written[1] # hist.written[2]
  /\ hist.written[1][2] # EmptyPath
  /\ Len(lib._assetRefs) = 2

\* C4: a lookup through the library of an id that no mesh ref carries ends
\* the process; no mesh file is opened and the cache gains no entry.
C4_UnresolvedIsFatal ==
  [][(last'.op \in LibraryLookups /\ MatchingRefs(lib, last'.id) = {}) =>
       /\ status' = "exited"
       /\ lib' = lib
       /\ opens' = opens]_vars

C4_Witness ==
  /\ status = "exited"
  /\ last.op \in LibraryLookups
  /\ Len(lib._assetRefs) > 0
  /\ MatchingRefs(lib, last.id) = {}
  /\ opens = <<>>

(* ----------------------------------------------------------------------- *)
(* Claims about libraries read from disk (SpecLibOpen)                     *)
(* ----------------------------------------------------------------------- *)

\* the refs of the library with assetID id and assetType mesh
MeshRefsOf(id) ==
  {i \in 1..Len(lib._assetRefs) :
     /\ lib._assetRefs[i].assetID = id
     /\ lib._assetRefs[i].assetType = AssetType_StaticMesh}

\* the string at the pathOffset of the last mesh ref of id
LastMeshRefPath(id) ==
  CStringAt(lib._pathData, lib._assetRefs[MaxOf(MeshRefsOf(id))].pathOffset)

\* what C5 asks of a lookup step that resolves to path p
ResolvesTo(p) ==
  /\ status' = "running"
  /\ last'.path = p
  /\ DOMAIN lib'._staticMeshHandleCache = DOMAIN lib._staticMeshHandleCache \cup {p}
  /\ opens' = IF p \in DOMAIN lib._staticMeshHandleCache
                THEN opens ELSE (p :> 1) @@ opens

\* C5 as claimed: whenever some mesh ref carries the id, the lookup resolves
\* to the path of the last such ref and does not terminate.
C5_LastMeshRefWins_Claimed ==
  [][(last'.op \in LibraryLookups /\ MeshRefsOf(last'.id) # {}) =>
       ResolvesTo(LastMeshRefPath(last'.id))]_vars

\* C5, amended: whenever some mesh ref carries the id and the path of the
\* last such ref is not the empty string, the lookup resolves to that path,
\* looks up or opens the handle of exactly that path and does not terminate;
\* texture refs are never selected.
C5_LastMeshRefWins ==
  [][(last'.op \in LibraryLookups /\ MeshRefsOf(last'.id) # {}
        /\ LastMeshRefPath(last'.id) # EmptyPath) =>
       ResolvesTo(LastMeshRefPath(last'.id))]_vars

\* two mesh refs of the looked-up id name different files, and the lookup
\* went to the file of the second
C5_Witness ==
  /\ last.op \in LibraryLookups
  /\ status = "running"
  /\ Len(lib._assetRefs) = 2
  /\ MeshRefsOf(last.id) = {1, 2}
  /\ CStringAt(lib._pathData, lib._assetRefs[1].pathOffset) = PathA
  /\ CStringAt(lib._pathData, lib._assetRefs[2].pathOffset) = PathB
  /\ last.path = PathB
  /\ DOMAIN lib._staticMeshHandleCache = {PathB}

\* the positions (1-based) at which the magic-number field of the library
\* file differs from the field of a valid file, if that is a single position
DamagedAt ==
  {k \in 1..MagicLen :
     \E rest \in GarbageBytes :
       {j \in 1..MagicLen :
          fs[LibPath].data[j] # MagicField(LibraryFileHeader_MAGIC_NUMBER, rest)[j]} = {k}}

OpenedLibPath == last.op = "openLibraryFile" /\ last.path = LibPath

\* C9 as claimed: a single changed byte at any of the 32 positions of the
\* magic-number field makes openLibraryFile terminate the process.
C9_DamagedMagicFatal_Claimed ==
  (OpenedLibPath /\ DamagedAt # {}) => status = "exited"

\* number of bytes strcpy writes into magicNumber: the string and its NUL
MagicStringBytes == Len(LibraryFileHeader_MAGIC_NUMBER) + 1

\* C9, amended: a single changed byte at any of the first 19 positions of
\* the magic-number field (the 18 characters of the magic string and its
\* terminating NUL) makes openLibraryFile terminate the process.
C9_DamagedMagicFatal ==
  (OpenedLibPath /\ \E k \in DamagedAt : k <= MagicStringBytes) =>
    status = "exited"

\* the terminating NUL of the magic string was changed and the open ended
\* the process
C9_Witness ==
  /\ OpenedLibPath
  /\ MagicStringBytes \in DamagedAt
  /\ status = "exited"

(* ----------------------------------------------------------------------- *)
(* Further claims about the library's handle cache (SpecLib)               *)
(* ----------------------------------------------------------------------- *)

\* the calls on a library object that leave the object alive
LibraryCalls == LibraryLookups \cup {"addMeshRef", "write"}

\* C12: cached handles live as long as the cache.  A getMeshData, readMesh,
\* addMeshRef or write on the library object keeps every handle its cache
\* holds: the path stays cached, under the handle that was opened for it
\* (same header, same record table, no further open of the path), and its
\* stream stays open; the path a lookup resolves to is served by that handle.
C12_CachedHandlesLive ==
  [][(lib.valid /\ last'.op \in LibraryCalls) =>
       /\ \A p \in DOMAIN lib._staticMeshHandleCache :
            /\ p \in DOMAIN lib'._staticMeshHandleCache
            /\ lib'._staticMeshHandleCache[p]._header = lib._staticMeshHandleCache[p]._header
            /\ lib'._staticMeshHandleCache[p]._meshes = lib._staticMeshHandleCache[p]._meshes
            /\ lib'._staticMeshHandleCache[p]._stream.path = p
            /\ lib'._staticMeshHandleCache[p]._stream.open
            /\ opens'[p] = opens[p]
       /\ (last'.op \in LibraryLookups /\ status' = "running") =>
            /\ last'.path \in DOMAIN lib'._staticMeshHandleCache
            /\ lib'._staticMeshHandleCache[last'.path]._stream.open]_vars

\* both mesh files are cached after reads through each of them, and the file
\* at PathA has just served another read: neither handle was dropped,
\* reopened or closed when the other was inserted
C12_Witness ==
  /\ lib.valid
  /\ DOMAIN lib._staticMeshHandleCache = {PathA, PathB}
  /\ last = Called("lib.readMesh", PathA, 7, 1)
  /\ \A p \in {PathA, PathB} :
       /\ lib._staticMeshHandleCache[p]._stream.open
       /\ lib._staticMeshHandleCache[p]._stream.pos
            > _indexOffsetToBytes(lib._staticMeshHandleCache[p], 0)
       /\ opens[p] = 1

\* the size of the blob after the first n of the addMeshRef calls cs
RECURSIVE BlobSizeAfter(_, _)
BlobSizeAfter(cs, n) ==
  IF n = 0 THEN 0 ELSE BlobSizeAfter(cs, n - 1) + Len(cs[n][2]) + 1

\* C22: path-blob invariant.  In a library object built by addMeshRef calls
\* there is one ref per call; the i-th ref has pathOffset equal to the sum
\* of length + 1 over the paths of all earlier calls and below the blob
\* size; the blob size is that sum over all calls; a non-empty blob ends in
\* NUL; and the NUL-terminated string at each ref's pathOffset is the path
\* of its call.
C22_PathBlob ==
  lib.valid =>
    /\ Len(lib._assetRefs) = Len(hist.calls)
    /\ Len(lib._pathData) = BlobSizeAfter(hist.calls, Len(hist.calls))
    /\ lib._pathData # <<>> => lib._pathData[Len(lib._pathData)] = 0
    /\ \A i \in 1..Len(lib._assetRefs) :
         /\ lib._assetRefs[i].pathOffset = BlobSizeAfter(hist.calls, i - 1)
         /\ lib._assetRefs[i].pathOffset < Len(lib._pathData)
         /\ CStringAt(lib._pathData, lib._assetRefs[i].pathOffset) = hist.calls[i][2]

\* an empty path was added first and a non-empty one after it: the second
\* ref starts at offset 1
C22_Witness ==
  /\ lib.valid
  /\ last.op = "addMeshRef"
  /\ Len(hist.calls) = 2
  /\ hist.calls[1][2] = EmptyPath
  /\ hist.calls[2][2] = PathB
  /\ lib._assetRefs[2].pathOffset = 1
  /\ lib._pathData = <<0>> \o PathB \o <<0>>

\* C23: addMeshRef is append-only and never rejects.  Every call, one whose
\* id the library already lists included, appends exactly one ref, so there
\* are as many refs as calls; the earlier refs, the earlier blob bytes and
\* the handle cache stay as they were and the process runs on.
C23_AppendOnly ==
  [][last'.op = "addMeshRef" =>
       /\ status' = "running"
       /\ Len(lib'._assetRefs) = Len(lib._assetRefs) + 1
       /\ Len(lib'._assetRefs) = Len(hist'.calls)
       /\ lib'._assetRefs[Len(lib'._assetRefs)].assetID = last'.id
       /\ SubSeq(lib'._assetRefs, 1, Len(lib._assetRefs)) = lib._assetRefs
       /\ SubSeq(lib'._pathData, 1, Len(lib._pathData)) = lib._pathData
       /\ lib'._staticMeshHandleCache = lib._staticMeshHandleCache
       /\ opens' = opens]_vars

\* id 7 was added a second time while the cache held the handle of PathA
C23_Witness ==
  /\ lib.valid
  /\ last.op = "addMeshRef"
  /\ Len(lib._assetRefs) = 2
  /\ lib._assetRefs[1].assetID = 7
  /\ lib._assetRefs[2].assetID = 7
  /\ PathA \in DOMAIN lib._staticMeshHandleCache

\* C24: delegated not-found is not fatal.  When the library resolves an id
\* to a path whose mesh file has no record with that id, getMeshData
\* returns null and readMesh returns false with the buffers untouched, the
\* process runs on, and the handle of the path is in the cache, opened once,
\* and not opened again if it was cached before.
C24_DelegatedNotFound ==
  [][(lib.valid /\ status = "running" /\ last'.op \in LibraryLookups
        /\ ~Unresolved(ResolvedPath(lib, last'.id))
        /\ MatchingRecords(OpenedStaticMeshFile(ResolvedPath(lib, last'.id)), last'.id) = {}) =>
       LET p == ResolvedPath(lib, last'.id) IN
         /\ status' = "running"
         /\ last'.path = p
         /\ last'.ret = 0
         /\ p \in DOMAIN lib'._staticMeshHandleCache
         /\ opens'[p] = 1
         /\ p \in DOMAIN lib._staticMeshHandleCache =>
              /\ opens' = opens
              /\ lib'._staticMeshHandleCache[p]._meshes = lib._staticMeshHandleCache[p]._meshes
         /\ last'.op = "lib.readMesh" => (vbuf' = FreshVerts /\ ibuf' = FreshIndices)]_vars

\* id 7 resolves to the file at PathB, which holds id 9 only; 7 was looked
\* up through the handle that an earlier lookup had cached
C24_Witness ==
  /\ lib.valid
  /\ status = "running"
  /\ ResolvedPath(lib, 7) = PathB
  /\ ResolvedPath(lib, 9) = PathB
  /\ last = Called("lib.readMesh", PathB, 7, 0)
  /\ PathB \in DOMAIN lib._staticMeshHandleCache
  /\ lib._staticMeshHandleCache[PathB]._stream.pos
       > _indexOffsetToBytes(lib._staticMeshHandleCache[PathB], 0)
  /\ opens[PathB] = 1

(* ----------------------------------------------------------------------- *)
(* Claims about handles opened on files found on disk (SpecMeshFound)      *)
(* ----------------------------------------------------------------------- *)

\* every record of the table of h lies inside the pools its header counts
OffsetInvariant(h) ==
  \A i \in 1..Len(h._meshes) :
    /\ h._meshes[i].vertexOffset + h._meshes[i].vertexCount <= h._header.vertexCount
    /\ h._meshes[i].indexOffset + h._meshes[i].indexCount <= h._header.indexCount

\* C11: offset invariant.  Every record in the table of a handle that
\* openStaticMeshFile returned satisfies vertexOffset + vertexCount <=
\* header.vertexCount and indexOffset + indexCount <= header.indexCount; a
\* file that violates this yields no usable handle.
C11_OffsetInvariant ==
  (handle.valid /\ handle._stream.open) => OffsetInvariant(handle)

\* the length of the file behind the stream of h
FileLength(h) == Len(FileOf(h._stream.path).data)

\* the file behind h has the length its header's counts give
FullLength(h) ==
  /\ h._stream.open
  /\ FileLength(h) = SizeofStaticMeshFileHeader
                       + h._header.meshCount * SizeofStaticMeshData
                       + h._header.vertexCount * SizeofStaticVertexData
                       + h._header.indexCount * SizeofU16

\* h stands on a well-formed file: unique ids, records inside the pools,
\* nothing cut off
WellFormed(h) ==
  h.valid /\ FullLength(h) /\ DistinctIds(h._meshes) /\ OffsetInvariant(h)

\* C13: read-order independence.  On a handle over a well-formed file,
\* whatever getMeshData and readMesh calls the handle served before, the
\* last readMesh(id) returned and stored what the same call returns and
\* stores on a handle just opened on the file, and the stream is not failed.
C13_ReadOrderIndependent ==
  (WellFormed(handle) /\ last.op = "readMesh") =>
    LET r == ReadMesh(OpenedStaticMeshFile(handle._stream.path), last.id,
                      FreshVerts, FreshIndices)
    IN  /\ last.ret = (IF r.ret THEN 1 ELSE 0)
        /\ vbuf = r.verts
        /\ ibuf = r.indices
        /\ ~handle._stream.fail

\* record 7 (the head of both pools) read after record 9 (their tail)
C13_Witness ==
  /\ WellFormed(handle)
  /\ hist.log = <<<<"readMesh", 9>>, <<"readMesh", 7>>>>
  /\ last = Called("readMesh", <<>>, 7, 1)
  /\ VertsOf(vbuf, 1) = <<VertexValue(0)>>
  /\ IndicesOf(ibuf, 1) = <<IndexValue(0)>>

\* byte position of vertex number n of the file behind h
VertexPos(h, n) ==
  SizeofStaticMeshFileHeader + h._header.meshCount * SizeofStaticMeshData
    + n * SizeofStaticVertexData

\* byte position of index number n of the file behind h
IndexPos(h, n) ==
  SizeofStaticMeshFileHeader + h._header.meshCount * SizeofStaticMeshData
    + h._header.vertexCount * SizeofStaticVertexData + n * SizeofU16

\* the file behind h holds all bytes of the vertex and index range of m
InsideFile(h, m) ==
  /\ VertexPos(h, m.vertexOffset + m.vertexCount) <= VertexPos(h, h._header.vertexCount)
  /\ IndexPos(h, m.indexOffset + m.indexCount) <= FileLength(h)
  /\ h._stream.open

\* buffers vb, ib hold the vertices and indices of record m as the file
\* behind h stores them
Delivered(h, m, vb, ib) ==
  LET data == FileOf(h._stream.path).data IN
    /\ SubSeq(vb, 1, m.vertexCount * SizeofStaticVertexData)
         = SubSeq(data, VertexPos(h, m.vertexOffset) + 1,
                        VertexPos(h, m.vertexOffset + m.vertexCount))
    /\ SubSeq(ib, 1, m.indexCount * SizeofU16)
         = SubSeq(data, IndexPos(h, m.indexOffset) + 1,
                        IndexPos(h, m.indexOffset + m.indexCount))

\* C16: whenever readMesh returned true both stream reads completed in full:
\* the ranges of the record lie inside the file, the stream has not failed,
\* and the buffers hold the record's vertexCount vertices and indexCount
\* indices as the file stores them, whatever the file's content.
C16_TrueMeansRead ==
  (handle.valid /\ last.op = "readMesh" /\ last.ret = 1) =>
    LET m == handle._meshes[ReadMeshIdx(handle, last.id)] IN
      /\ ~handle._stream.fail
      /\ InsideFile(handle, m)
      /\ Delivered(handle, m, vbuf, ibuf)

\* the open read the header and the whole record table of h, yet the stream
\* of h has failed since: some readMesh on h ran past the end of the file
ReadRanPastEnd(h) ==
  /\ h.valid
  /\ h._stream.open
  /\ FileLength(h) >= VertexPos(h, 0)
  /\ h._stream.fail

\* C17: a failed read does not poison the handle.  When an earlier readMesh
\* on the handle ran past the end of the file, a readMesh for a record whose
\* vertex and index ranges lie entirely inside the file returns true and
\* delivers that record's data.
C17_FailedReadNoPoison ==
  [][(last'.op = "readMesh" /\ ReadRanPastEnd(handle)
        /\ ReadMeshIdx(handle, last'.id) # 0
        /\ InsideFile(handle, handle._meshes[ReadMeshIdx(handle, last'.id)])) =>
       /\ last'.ret = 1
       /\ Delivered(handle, handle._meshes[ReadMeshIdx(handle, last'.id)], vbuf', ibuf')]_vars

\* C18: in-bounds reads.  On a handle whose records satisfy the offset
\* invariant and whose file has its full length, readMesh of a record reads
\* its vertexCount vertices from inside the vertex section and its
\* indexCount indices from inside the index section, both in full; no read
\* starts in the header or the record table or runs past the end of the
\* file, and the stream is left good behind the index range.
C18_InBoundsReads ==
  [][(last'.op = "readMesh" /\ handle.valid /\ FullLength(handle)
        /\ OffsetInvariant(handle) /\ ReadMeshIdx(handle, last'.id) # 0) =>
       LET m == handle._meshes[ReadMeshIdx(handle, last'.id)]
           t == ReadMeshStreams(handle, m)
       IN  /\ VertexPos(handle, 0) <= t.s1.pos
           /\ t.r1.s.pos = t.s1.pos + m.vertexCount * SizeofStaticVertexData
           /\ t.r1.s.pos <= VertexPos(handle, handle._header.vertexCount)
           /\ IndexPos(handle, 0) <= t.s2.pos
           /\ t.r2.s.pos = t.s2.pos + m.indexCount * SizeofU16
           /\ t.r2.s.pos <= FileLength(handle)
           /\ ~t.r2.s.fail /\ ~t.r2.s.eof
           /\ handle'._stream = t.r2.s]_vars

\* the record that ends both pools was read: the stream stands at the end of
\* the file and has not run past it
C18_Witness ==
  /\ handle.valid
  /\ FullLength(handle)
  /\ OffsetInvariant(handle)
  /\ last = Called("readMesh", <<>>, 9, 1)
  /\ handle._stream.pos = FileLength(handle)
  /\ ~handle._stream.eof
  /\ ~handle._stream.fail

\* what openStaticMeshFile leaves of a file of full length: the header and
\* the records as the file holds them, in file order, and the stream good at
\* the first vertex byte
EagerlyOpened(h) ==
  LET data == FileOf(h._stream.path).data IN
    /\ h._header = StaticMeshFileHeaderAt(data)
    /\ \A i \in 1..h._header.meshCount :
         h._meshes[i] = StaticMeshDataAt(data, SizeofStaticMeshFileHeader
                                                 + (i - 1) * SizeofStaticMeshData)
    /\ h._stream.pos = VertexPos(h, 0)
    /\ ~h._stream.fail
    /\ ~h._stream.eof

\* C19: eager open.  openStaticMeshFile on a file of full length read the
\* header and exactly header.meshCount records in file order and left the
\* stream at the first vertex byte; in every state of a handle its table has
\* header.meshCount records; getMeshData and readMesh change neither the
\* header nor the table.
C19_EagerOpen ==
  [][/\ ((last.op = "openStaticMeshFile" /\ FullLength(handle)) => EagerlyOpened(handle))'
     /\ (handle.valid => Len(handle._meshes) = handle._header.meshCount)'
     /\ last'.op \in {"getMeshData", "readMesh"} =>
          /\ handle'._header = handle._header
          /\ handle'._meshes = handle._meshes]_vars

\* a handle just opened on a full-length file with two records
C19_Witness ==
  /\ last.op = "openStaticMeshFile"
  /\ FullLength(handle)
  /\ Len(handle._meshes) = 2
  /\ handle._meshes[1].id = 7
  /\ handle._meshes[2].id = 9
  /\ handle._stream.pos = SizeofStaticMeshFileHeader + 2 * SizeofStaticMeshData

\* C20: openStaticMeshFile performs no validation.  Whatever stands at the
\* path, it returns a handle and the process runs on; the counts and the
\* record table of the handle are those found behind the first 32 bytes of
\* the file, whatever these 32 bytes hold, and for a path that cannot be
\* opened the counts are zero and the table is empty.
C20_OpenNeverValidates ==
  last.op = "openStaticMeshFile" =>
    LET f == FileOf(last.path) IN
      /\ status = "running"
      /\ handle.valid
      /\ ~f.exists =>
           /\ ~handle._stream.open
           /\ handle._header.meshCount = 0
           /\ handle._header.vertexCount = 0
           /\ handle._header.indexCount = 0
           /\ handle._meshes = <<>>
      /\ (f.exists /\ Len(f.data) >= SizeofStaticMeshFileHeader
            /\ Len(f.data) >= SizeofStaticMeshFileHeader
                                + U32At(f.data, MagicLen) * SizeofStaticMeshData) =>
           /\ handle._stream.open
           /\ handle._header.meshCount = U32At(f.data, MagicLen)
           /\ handle._header.vertexCount = U32At(f.data, MagicLen + SizeofU32)
           /\ handle._header.indexCount = U32At(f.data, MagicLen + 2 * SizeofU32)
           /\ handle._meshes =
                [i \in 1..U32At(f.data, MagicLen) |->
                   StaticMeshDataAt(f.data, SizeofStaticMeshFileHeader
                                              + (i - 1) * SizeofStaticMeshData)]

\* a file whose first 32 bytes are all zero was opened: the handle carries
\* its two records
C20_Witness ==
  /\ last.op = "openStaticMeshFile"
  /\ status = "running"
  /\ FileOf(last.path).exists
  /\ Len(FileOf(last.path).data) >= MagicLen
  /\ SubSeq(FileOf(last.path).data, 1, MagicLen) = Fill(MagicLen, 0)
  /\ handle._stream.open
  /\ handle._header.meshCount = 2
  /\ handle._meshes[2].id = 9

(* ----------------------------------------------------------------------- *)
(* Claims about library files cut short (SpecLibCut)                       *)
(* ----------------------------------------------------------------------- *)

\* C21: openLibraryFile returns a handle only if the file was opened and a
\* complete header was read: for a path that cannot be opened and for every
\* file shorter than the 40-byte header the process terminates.
C21_ShortLibraryFatal ==
  (last.op = "openLibraryFile"
     /\ (~FileOf(last.path).exists
           \/ Len(FileOf(last.path).data) < SizeofLibraryFileHeader)) =>
    status = "exited"

(* ----------------------------------------------------------------------- *)
(* Claims about the descriptor layout cache (SpecLayouts)                  *)
(* ----------------------------------------------------------------------- *)

\* the binding lists a and b are equal as sets
SameSet(a, b) ==
  {a[i] : i \in 1..Len(a)} = {b[i] : i \in 1..Len(b)}

\* no two elements of bs carry the same binding number
DistinctBindings(bs) ==
  \A i, j \in 1..Len(bs) : bs[i].binding = bs[j].binding => i = j

\* C25 as claimed: createDescriptorLayout returns the cached layout and
\* creates none when the cache holds a layout for a binding list equal, as a
\* set, to the one it is given; the cache never holds two layouts for lists
\* that are equal as sets.
C25_LayoutDedup_Claimed ==
  [][last'.op = "createDescriptorLayout" =>
       /\ \A k \in DOMAIN layoutCache :
            SameSet(k, last'.path) =>
              /\ layoutCache' = layoutCache
              /\ last'.ret = layoutCache[k]
       /\ \A k1, k2 \in DOMAIN layoutCache' : SameSet(k1, k2) => k1 = k2]_vars

\* C25, amended: among binding lists with pairwise distinct binding numbers,
\* createDescriptorLayout returns the cached layout and creates none when
\* the cache holds a layout for a list equal, as a set, to the one it is
\* given, whatever the order of the two lists; the cache never holds two
\* layouts for such lists that are equal as sets.
C25_LayoutDedup ==
  [][(last'.op = "createDescriptorLayout" /\ DistinctBindings(last'.path)) =>
       /\ \A k \in DOMAIN layoutCache :
            (DistinctBindings(k) /\ SameSet(k, last'.path)) =>
              /\ layoutCache' = layoutCache
              /\ last'.ret = layoutCache[k]
       /\ \A k1, k2 \in DOMAIN layoutCache' :
            (DistinctBindings(k1) /\ DistinctBindings(k2) /\ SameSet(k1, k2)) => k1 = k2]_vars

\* the list (binding 0, binding 1) was given after another layout had been
\* created, and the call returned the first layout, cached under the list
\* (binding 1, binding 0)
C25_Witness ==
  /\ last.op = "createDescriptorLayout"
  /\ last.path = <<LayoutBinding(0, 6), LayoutBinding(1, 6)>>
  /\ last.ret = 1
  /\ Cardinality(DOMAIN layoutCache) = 2
  /\ <<LayoutBinding(1, 6), LayoutBinding(0, 6)>> \in DOMAIN layoutCache
  /\ layoutCache[<<LayoutBinding(1, 6), LayoutBinding(0, 6)>>] = 1

(* ----------------------------------------------------------------------- *)
(* Claims about the descriptor allocator (SpecAllocator)                   *)
(* ----------------------------------------------------------------------- *)

\* C26: descriptor allocation retry.  When allocate made a second
\* vkAllocateDescriptorSets call, that call went to the pool it had just
\* grabbed and made the current pool, not to the pool of the first call;
\* and allocate makes at most two such calls.
C26_RetryOnNewPool ==
  last.op = "allocate" =>
    /\ Len(allocator.attempts) <= 2
    /\ Len(allocator.attempts) = 2 =>
         /\ allocator.attempts[2] = allocator._currentPool
         /\ allocator.attempts[2] # allocator.attempts[1]

\* every pool created is in exactly one of the lists, once, and the current
\* pool is null or a used pool
PoolsConserved(a) ==
  /\ Range(a._usedPools) \cup Range(a._freePools) = 1..a.created
  /\ Range(a._usedPools) \cap Range(a._freePools) = {}
  /\ Cardinality(Range(a._usedPools)) = Len(a._usedPools)
  /\ Cardinality(Range(a._freePools)) = Len(a._freePools)
  /\ a._currentPool = VK_NULL_HANDLE \/ a._currentPool \in Range(a._usedPools)

C28_FramesInFlight ==
  /\ engine._currentFrame \in 0..(MAX_FRAMES_IN_FLIGHT - 1)
  /\ Len(engine.inFlight) <= MAX_FRAMES_IN_FLIGHT
  /\ last.op = "vkResetCommandPool" /\ last.ret = 0 =>
       engine._currentFrame \notin Range(engine.inFlight)

(* ----------------------------------------------------------------------- *)
(* Claims about the identifier registry (SpecIDDB)                         *)
(* ----------------------------------------------------------------------- *)

\* the registry numbers its names 1..n in the order they were registered
NumberedInOrder(db) ==
  /\ DOMAIN db._nameToID = Range(db._idToName)
  /\ \A i \in 1..Len(db._idToName) : db._nameToID[db._idToName[i]] = i

\* C29: identifier registry stability.  At all times the ids are exactly
\* 1..n in order of first registration (so distinct names have distinct ids
\* and 0 is never issued); a getID call returns the id the registry holds
\* for the name, leaves the id of every registered name as it was, and
\* changes nothing when the name was already registered.
C29_RegistryStable ==
  [][/\ NumberedInOrder(iddb)'
     /\ last'.op = "getID" =>
          /\ last'.ret >= 1
          /\ last'.ret = iddb'._nameToID[last'.path]
          /\ \A n \in DOMAIN iddb._nameToID : iddb'._nameToID[n] = iddb._nameToID[n]
          /\ last'.path \in DOMAIN iddb._nameToID => iddb' = iddb]_vars

\* with two names registered, getID has been called again for the first
C29_Witness ==
  /\ last.op = "getID"
  /\ last.ret = 1
  /\ Len(iddb._idToName) = 2
  /\ iddb._idToName[1] = last.path

\* no name of the registry holds a newline or outgrows the line buffer
PlainNames(db) ==
  \A i \in 1..Len(db._idToName) :
    /\ \A k \in 1..Len(db._idToName[i]) : db._idToName[i][k] # Newline
    /\ Len(db._idToName[i]) < LineBufferSize

\* C30: identifier registry persistence.  When a registry of names without
\* newline and shorter than the line buffer has been written to a path and
\* fromFile of that path is the next call, fromFile returns and every name
\* of the written registry has in the loaded registry the id it had.
C30_RoundTrip ==
  [][(/\ last.op = "write"
      /\ last'.op = "fromFile"
      /\ last'.path = last.path
      /\ PlainNames(iddb))
     => /\ status' = "running"
        /\ \A n \in DOMAIN iddb._nameToID :
             /\ n \in DOMAIN iddb'._nameToID
             /\ iddb'._nameToID[n] = iddb._nameToID[n]]_vars

====
